---- MODULE Spec2Model ----
(***************************************************************************)
(* A model of the mailbox synchronisation core of vexmail:                 *)
(*   - the IMAP session pool and the per-session lock (imap_manager.py),   *)
(*   - the message store and the reconciliation passes                     *)
(*     (email_sync_service.py, tasks.py, background_tasks.py),             *)
(*   - the local mutation handlers and the pending-operation drain         *)
(*     (app.py, tasks.py, background_tasks.py),                            *)
(*   - the change listener: start_idle, stop_idle and _idle_loop           *)
(*     (imap_manager.py),                                                  *)
(*   - the event bus of the realtime service and its processor thread      *)
(*     (realtime_service.py),                                              *)
(*   - the task manager and the periodic loop (background_tasks.py),       *)
(*   - startup and the teardown of an application context (app.py).        *)
(* Each part has its own specification (SpecPool, SpecStore, SpecSync,     *)
(* SpecOverlap, SpecConverge with its fair version SpecConvergeLive,       *)
(* SpecQueue, SpecFaults, SpecDrains, SpecIdle with its fair version       *)
(* SpecIdleLive, SpecListen, SpecServe, SpecBus, SpecReap with its fair    *)
(* version SpecReapLive, SpecSched with its fair version SpecSchedLive)    *)
(* over the shared variables; a part's specification leaves the other      *)
(* parts' variables at their initial values.  The lease path of            *)
(* IMAPConnection.get_connection is modelled in SpecPool; in the other     *)
(* specifications a leased session either yields its connection or is      *)
(* down.                                                                   *)
(***************************************************************************)
EXTENDS Integers, Sequences, FiniteSets, TLC

(***************************************************************************)
(* Bounds of the model and program constants.                              *)
(***************************************************************************)
\* number of concurrent callers of the pool (request / worker threads)
NCallers == 2
\* number of IMAPConnection objects that can ever be connected in a run
MaxSessions == 3
\* IMAPConnectionPool.__init__(max_connections): the size of the idle queue
\* and the number of sessions connected at construction
max_connections == 2

\* messages the server mailbox can hold
MaxMsgs == 2
\* ticks of the wall clock (datetime.utcnow) in a run
MaxClock == 1
\* values the server's UIDVALIDITY takes in a run
MaxValidity == 2
\* reconciliation passes that can run concurrently
NPasses == 2
\* largest `limit` argument of a pass
MaxLimit == 2

\* listener threads IMAPManager.start_idle can create in a run
MaxLoops == 2
\* changes the server signals in a run
MaxChanges == 1

\* rounds of the periodic loop of background_tasks.py in a run
MaxRounds == 5
\* emails a sync_emails_task fetches at most
MaxFetched == 1
\* TaskManager.__init__: num_workers
num_workers == 4
\* how long the clock of the event bus runs, in units of client_timeout
MaxQuiet == 2
\* _cleanup_clients, line 155: timedelta(minutes=5), the unit of the bus clock
client_timeout == 1
\* clients that register with the event bus in a run
NClients == 2
\* events broadcast in a run
MaxEvents == 3
\* a capacity for the queue of a subscriber: the contract asks for some
\* finite one
QueueBound == 2
\* client['events'] = Queue(): maxsize 0, which Queue reads as no limit
maxsize == 0

\* rows table `email_operations` can hold in a run
MaxOps == 2
\* EmailOperation.max_retries, the column default
max_retries == 3

Callers == 1..NCallers
Sessions == 1..MaxSessions
Passes == 1..NPasses
Loops == 1..MaxLoops
ClientIds == 1..NClients
\* the types of the events the services emit, and the default subscription
EventTypes == {"email_received", "sync_status"}
Limits == 1..MaxLimit
\* Message-ID header values; "" stands for a message without the header
Mids == {"a", "b"}
\* IMAP message numbers as the strings the server sends
Uids == {"1", "2"}

VARIABLES
    \* ---- session pool (imap_manager.py)
    connections,   \* IMAPConnectionPool.connections: the sessions the pool owns
    available,     \* IMAPConnectionPool.available_connections: the idle queue
    live,          \* per session: TRUE while its connection answers a NOOP
    lockOwner,     \* per session: the caller holding IMAPConnection.lock, 0 if free
    nsess,         \* number of sessions connected so far (fresh identities)
    pc,            \* per caller: where it is in `with pool.get_connection()`
    held,          \* per caller: the session its lease yielded, 0 if none
    lastReleased,  \* the session most recently put back by a release (history)
    sweepPc,       \* cleanup_stale_connections: "idle", "evicting", "put"
    sweepTodo,     \* stale_connections still to evict
    sweepNew,      \* the replacement session waiting to be put
    \* ---- change listener (IMAPManager.start_idle, stop_idle, _idle_loop)
    idle_running,  \* IMAPManager.idle_running
    idle_thread,   \* IMAPManager.idle_thread: the newest listener thread, 0 if none
    nloops,        \* number of listener threads created so far
    loopPc,        \* per listener thread: where it is in _idle_loop
    loopHeld,      \* per listener thread: the session its lease yielded, 0 if none
    is_idle,       \* per session: IMAPConnection.is_idle
    stopPc,        \* stop_idle: "idle", or "joining" while it holds idle_lock
    responses,     \* the sessions with an unread IDLE response of the server
    missed,        \* the server changed while a listener thread was in its
                   \* backoff sleep and no session was in IDLE, and no event
                   \* has been published since (history)
    nchanges,      \* number of changes the server has signalled so far
    imapEvents,    \* number of 'new_email' events published on 'imap_events'
    stoppedWaiting,\* the listener thread that was in its IDLE wait when the
                   \* last stop_idle began, 0 if none (history)
    \* ---- event bus (services/realtime_service.py)
    clients,       \* RealtimeService.clients: the registered client ids
    subscriptions, \* per client: client['subscriptions']
    events,        \* per client: client['events'], the undelivered events
    nevents,       \* number of events broadcast so far
    nregistered,   \* number of register_client calls so far
    polls,         \* per client id: "waiting" while a get_client_events call on
                   \* its queue is in progress, else "idle"
    delivered,     \* per client id: the ids of the events its polls returned, in
                   \* order (history)
    lastPoll,      \* per client id: what its last poll returned and how many
                   \* events were queued at that moment (history)
    audience,      \* per event id: the clients whose subscriptions held the
                   \* event's type when it was broadcast (history)
    last_ping,     \* per client id: client['last_ping']
    reaperPc,      \* the processor thread's place in _process_events:
                   \* "cleanup", "get" or "sleeping"
    \* ---- in-process scheduler (background_tasks.py)
    task_queue,    \* TaskManager.task_queue: the names of the queued tasks
    workers,       \* per worker thread: the task it executes and whether that
                   \* call ever returns
    rounds,        \* number of rounds of periodic_loop so far
    started,       \* per task name: how many times a worker began it (history)
    \* ---- message store (models.py) and clock
    emails,        \* the rows of table `emails`
    now,           \* datetime.utcnow().timestamp()
    lastStore,     \* the last store_email_safely call and its outcome (history)
    \* ---- IMAP server
    mailbox,       \* the selected mailbox: message number -> message
    uidvalidity,   \* the mailbox's UIDVALIDITY
    seenValidity,  \* UIDVALIDITY at the start of the previous pass (history)
    \* ---- reconciliation passes
    passPc,        \* per pass: "idle", "storing", "done"
    passKind,      \* per pass: "service" or "celery"
    batch,         \* per pass: fetched email_data still to process
    passRes,       \* per pass: the dict the pass returns
    passInfo,      \* per pass: what the server held at the fetch (history)
    overlapped,    \* a pass fetched while another was storing (history)
    \* ---- local mutations and the pending-operation drain
    operations,    \* the rows ever inserted in table `email_operations`, in
                   \* insertion order
    purged,        \* the positions of the rows that were deleted from the table
    published,     \* the events published on channel 'email_events', in order
    req,           \* the request being served: position, handler, email id
    lastReq,       \* what the last returned request did (history)
    drainPc,       \* the drain: "idle", "running", "issued"
    todo,          \* the drain's pending_ops still to process
    attempt,       \* the drain's command in progress: operation, session up, outcome
    effects,       \* the operations whose command the server applied, in order
    staleSeen,     \* mark-reads a pass saw unread before their first drain and
                   \* whose first attempt is not yet recorded (history)
    taskPc,        \* process_pending_operations_task, the drain the in-process
                   \* scheduler queues: "idle", "running", "issued"
    taskTodo,      \* its pending_ops still to process
    taskAttempt,   \* its command in progress
    attempts,      \* per operation: the commands issued for it so far (history)
    lastSeen       \* the last reconciliation of the stored message: the kind of
                   \* pass and the read flag the server reported (history)

poolVars == <<connections, available, live, lockOwner, nsess, pc, held,
              lastReleased, sweepPc, sweepTodo, sweepNew>>

storeVars == <<emails, now, lastStore>>

serverVars == <<mailbox, uidvalidity, seenValidity>>

passVars == <<passPc, passKind, batch, passRes, passInfo, overlapped>>

taskVars == <<taskPc, taskTodo, taskAttempt>>

queueVars == <<operations, req, lastReq, drainPc, todo, attempt, effects, staleSeen,
               purged, published, taskVars, attempts, lastSeen>>

idleVars == <<idle_running, idle_thread, nloops, loopPc, loopHeld, is_idle, stopPc,
              responses, missed, nchanges, imapEvents, stoppedWaiting>>

busVars == <<clients, subscriptions, events, nevents, nregistered, polls, delivered, lastPoll, audience>>

\* the in-process services: session pool, change listener, event bus
\* the processor thread of the event bus and the clients' last pings
reaperVars == <<last_ping, reaperPc>>

\* the task manager of background_tasks.py
schedVars == <<task_queue, workers, rounds, started>>

serviceVars == <<poolVars, idleVars, busVars, reaperVars, schedVars>>

\* what the session pool and the change listener leave alone
appVars == <<storeVars, serverVars, passVars, queueVars, busVars, reaperVars, schedVars>>

nonPoolVars == <<appVars, idleVars>>

nonBusVars == <<poolVars, idleVars, storeVars, serverVars, passVars, queueVars, schedVars>>

vars == <<poolVars, idleVars, busVars, reaperVars, schedVars, storeVars, serverVars,
         passVars, queueVars>>

(***************************************************************************)
(* Helpers                                                                 *)
(***************************************************************************)
Range(s) == {s[i] : i \in DOMAIN s}

Min(S) == CHOOSE x \in S : \A y \in S : x <= y

Max(a, b) == IF a >= b THEN a ELSE b

Reverse(s) == [i \in 1..Len(s) |-> s[Len(s) + 1 - i]]

\* Queue.get on a non-empty queue: the item handed out and what stays queued.
QueueGetItem(q) == Head(q)

QueueGetRestKeep(q) == q

QueueGetRest(q) == Tail(q)

\* Queue(maxsize=max_connections).put blocks while the queue is full.
QueueCanPut(q) == Len(q) < max_connections

(***************************************************************************)
(* Session pool                                                            *)
(***************************************************************************)
\* The sessions some part of the program still refers to.
Referenced ==
    connections \cup Range(available) \cup {held[t] : t \in Callers} \cup {sweepNew}
        \cup {loopHeld[l] : l \in Loops}

\* IMAPConnectionPool.__init__: up to max_connections sessions are connected;
\* every connect() may fail, the pool keeps those that succeeded.
InitPool ==
    /\ nsess \in 0..max_connections
    /\ connections = 1..nsess
    /\ available = [i \in 1..nsess |-> i]
    /\ live = [s \in Sessions |-> s <= nsess]
    /\ lockOwner = [s \in Sessions |-> 0]
    /\ pc = [t \in Callers |-> "idle"]
    /\ held = [t \in Callers |-> 0]
    /\ lastReleased = 0
    /\ sweepPc = "idle"
    /\ sweepTodo = {}
    /\ sweepNew = 0

sweepVars == <<sweepPc, sweepTodo, sweepNew>>

\* get_connection, lines 116-117: an idle session is taken from the queue.
LeaseIdle(t) ==
    /\ pc[t] = "idle"
    /\ available # <<>>
    /\ held' = [held EXCEPT ![t] = QueueGetItem(available)]
    /\ available' = QueueGetRest(available)
    /\ pc' = [pc EXCEPT ![t] = "leased"]
    /\ UNCHANGED <<connections, live, lockOwner, nsess, lastReleased, sweepVars>>
    /\ UNCHANGED nonPoolVars

\* get_connection, lines 118-122: the queue stayed empty for the wait bound;
\* a temporary session is created and connects.
LeaseTemp(t) ==
    /\ pc[t] = "idle"
    /\ available = <<>>
    /\ nsess < MaxSessions
    /\ nsess' = nsess + 1
    /\ live' = [live EXCEPT ![nsess + 1] = TRUE]
    /\ held' = [held EXCEPT ![t] = nsess + 1]
    /\ pc' = [pc EXCEPT ![t] = "leased"]
    /\ UNCHANGED <<connections, available, lockOwner, lastReleased, sweepVars>>
    /\ UNCHANGED nonPoolVars

\* get_connection, lines 118-132: the temporary session fails to connect and
\* the exception leaves the with-block; the finally clause still sees the
\* session object and probes it: when the probe is answered (connect() keeps
\* the socket it opened when the login fails, line 45) or when the second
\* connect() of line 131 succeeds, the session is put in the idle queue.
LeaseFail(t) ==
    /\ pc[t] = "idle"
    /\ available = <<>>
    /\ \E again \in BOOLEAN :
         IF again /\ nsess < MaxSessions
         THEN /\ nsess' = nsess + 1
              /\ live' = [live EXCEPT ![nsess + 1] = TRUE]
              /\ available' = <<nsess + 1>>
         ELSE UNCHANGED <<nsess, live, available>>
    /\ UNCHANGED <<connections, lockOwner, pc, held, lastReleased, sweepVars>>
    /\ UNCHANGED nonPoolVars

\* IMAPConnection.get_connection, line 82: `with self.lock:` is entered.
get_connection_enter(t) ==
    /\ pc[t] = "leased"
    /\ lockOwner[held[t]] = 0
    /\ lockOwner' = [lockOwner EXCEPT ![held[t]] = t]
    /\ pc' = [pc EXCEPT ![t] = "gc_locked"]
    /\ UNCHANGED <<connections, available, live, nsess, held, lastReleased, sweepVars>>
    /\ UNCHANGED nonPoolVars

\* IMAPConnection.is_connected, lines 68-78: `with self.lock:` (a
\* threading.Lock, not re-entrant), then a NOOP on the connection.  It runs
\*   - in the release path of the lease (line 127), pc "leased": a live
\*     session goes back to the idle queue, a broken one is reconnected
\*     (line 131) and queued when that succeeds, dropped when it fails;
\*   - inside IMAPConnection.get_connection (line 83), pc "gc_locked", with
\*     the session's lock already taken at line 82: when it returns the
\*     caller stamps last_used, leaves the outer with-block, which frees the
\*     lock, and goes on with the connection.
is_connected(t) ==
    /\ pc[t] \in {"leased", "gc_locked"}
    /\ lockOwner[held[t]] = 0
    /\ LET s == held[t] IN
       \E reconnect \in BOOLEAN :
         IF pc[t] = "gc_locked"
         THEN /\ pc' = [pc EXCEPT ![t] = "leased"]
              /\ lockOwner' = [lockOwner EXCEPT ![s] = 0]
              /\ UNCHANGED <<live, held>>
         ELSE IF live[s] \/ reconnect
         THEN /\ live' = [live EXCEPT ![s] = TRUE]
              /\ pc' = [pc EXCEPT ![t] = "putting"]
              /\ UNCHANGED <<held, lockOwner>>
         ELSE /\ pc' = [pc EXCEPT ![t] = "idle"]
              /\ held' = [held EXCEPT ![t] = 0]
              /\ UNCHANGED <<live, lockOwner>>
    /\ UNCHANGED <<connections, available, nsess, lastReleased, sweepVars>>
    /\ UNCHANGED nonPoolVars

\* get_connection, lines 128 / 132: available_connections.put(conn); the put
\* blocks while the queue is full.
ReleasePut(t) ==
    /\ pc[t] = "putting"
    /\ QueueCanPut(available)
    /\ available' = Append(available, held[t])
    /\ lastReleased' = held[t]
    /\ held' = [held EXCEPT ![t] = 0]
    /\ pc' = [pc EXCEPT ![t] = "idle"]
    /\ UNCHANGED <<connections, live, lockOwner, nsess, sweepVars>>
    /\ UNCHANGED nonPoolVars

\* The server or the network ends a session's connection.
ServerDrop(s) ==
    /\ live[s]
    /\ s \in Referenced
    /\ live' = [live EXCEPT ![s] = FALSE]
    /\ UNCHANGED <<connections, available, lockOwner, nsess, pc, held,
                   lastReleased, sweepVars>>
    /\ UNCHANGED nonPoolVars

\* cleanup_stale_connections, lines 136-142: every session of the pool is
\* probed (is_connected takes the session's lock); a session is stale when
\* the probe fails or when it was last used more than 30 minutes ago.
SweepScan ==
    /\ sweepPc = "idle"
    /\ \A c \in connections : lockOwner[c] = 0
    /\ \E stale \in SUBSET connections :
         /\ stale # {}
         /\ \A c \in connections : ~live[c] => c \in stale
         /\ sweepTodo' = stale
    /\ sweepPc' = "evicting"
    /\ UNCHANGED <<connections, available, live, lockOwner, nsess, pc, held,
                   lastReleased, sweepNew>>
    /\ UNCHANGED nonPoolVars

\* lines 144-151: the next stale session is disconnected (under its lock;
\* disconnect() ends its IDLE, lines 60-62) and removed from the pool's
\* list -- not from the idle queue -- and a replacement is created; when
\* it connects it joins the list.
SweepEvict ==
    /\ sweepPc = "evicting"
    /\ sweepTodo # {}
    /\ LET c == Min(sweepTodo) IN
       /\ lockOwner[c] = 0
       /\ sweepTodo' = sweepTodo \ {c}
       /\ \E ok \in BOOLEAN :
            IF ok /\ nsess < MaxSessions
            THEN /\ nsess' = nsess + 1
                 /\ live' = [live EXCEPT ![c] = FALSE, ![nsess + 1] = TRUE]
                 /\ connections' = (connections \ {c}) \cup {nsess + 1}
                 /\ sweepNew' = nsess + 1
                 /\ sweepPc' = "put"
            ELSE /\ live' = [live EXCEPT ![c] = FALSE]
                 /\ connections' = connections \ {c}
                 /\ sweepPc' = IF sweepTodo \ {c} = {} THEN "idle" ELSE "evicting"
                 /\ UNCHANGED <<nsess, sweepNew>>
       /\ is_idle' = [is_idle EXCEPT ![c] = FALSE]
       /\ responses' = responses \ {c}
    /\ UNCHANGED <<available, lockOwner, pc, held, lastReleased>>
    /\ UNCHANGED <<idle_running, idle_thread, nloops, loopPc, loopHeld, stopPc,
                   missed, nchanges, imapEvents, stoppedWaiting>>
    /\ UNCHANGED appVars

\* line 152: available_connections.put(new_conn), blocking while the queue is
\* full.
SweepPut ==
    /\ sweepPc = "put"
    /\ QueueCanPut(available)
    /\ available' = Append(available, sweepNew)
    /\ sweepNew' = 0
    /\ sweepPc' = IF sweepTodo = {} THEN "idle" ELSE "evicting"
    /\ UNCHANGED <<connections, live, lockOwner, nsess, pc, held, lastReleased,
                   sweepTodo>>
    /\ UNCHANGED nonPoolVars

NextPool ==
    \/ \E t \in Callers : LeaseIdle(t)
    \/ \E t \in Callers : LeaseTemp(t)
    \/ \E t \in Callers : LeaseFail(t)
    \/ \E t \in Callers : get_connection_enter(t)
    \/ \E t \in Callers : is_connected(t)
    \/ \E t \in Callers : ReleasePut(t)
    \/ \E s \in Sessions : ServerDrop(s)
    \/ SweepScan
    \/ SweepEvict
    \/ SweepPut

(***************************************************************************)
(* Message store                                                           *)
(***************************************************************************)
\* A key the email_data dict does not have.
NoKey == "<no key>"

\* dict.get(key, default)
DictGet(v, default) == IF v = NoKey THEN default ELSE v

\* The value under 'raw_content': absent, bytes the parser fails on, or an
\* RFC 822 message with the given Message-ID header.
NoRaw == [present |-> FALSE, parses |-> FALSE, message_id |-> ""]

BadRaw == [present |-> TRUE, parses |-> FALSE, message_id |-> ""]

GoodRaw(m) == [present |-> TRUE, parses |-> TRUE, message_id |-> m]

RawOf(tag, m) ==
    IF tag = "none" THEN NoRaw ELSE IF tag = "bad" THEN BadRaw ELSE GoodRaw(m)

\* hashlib.md5(x.encode()).hexdigest(): equal digests for equal inputs only.
Md5(x) == "md5:" \o x

\* EmailSyncService.generate_email_id
generate_email_id(message_id, uid, ts) ==
    IF message_id # ""
    THEN Md5(message_id)
    ELSE Md5(uid \o "_" \o ToString(ts))

\* EmailSyncService.is_email_exists
is_email_exists(db, email_id) == \E r \in db : r.id = email_id

\* EmailParser.parse_email, as its callers use it: a dict that is empty when
\* parsing raised (message_from_bytes('') raises), with 'id' and 'message_id'.
parse_email(raw, fresh) ==
    IF raw.present /\ raw.parses
    THEN [ok |-> TRUE,
          id |-> IF raw.message_id # "" THEN Md5(raw.message_id) ELSE fresh,
          message_id |-> raw.message_id]
    ELSE [ok |-> FALSE, id |-> "", message_id |-> ""]

\* models.py: Email.message_id is declared unique=True.
MessageIdUnique == TRUE

\* db.session.add + commit of a new Email row: the primary key and the
\* unique message_id column decide whether the INSERT is accepted.
InsertOk(db, row) ==
    /\ ~\E r \in db : r.id = row.id
    /\ MessageIdUnique => ~\E r \in db : r.message_id = row.message_id

\* EmailSyncService.store_email_safely: the table afterwards and whether a
\* record (rather than None) is returned.
store_email_safely(db, d, ts) ==
    LET message_id == DictGet(d.message_id, "")
        email_id == generate_email_id(message_id, DictGet(d.uid, ""), ts)
        parsed_email == parse_email(d.raw_content, "")
        email_record == [id |-> email_id,
                         message_id |-> message_id,
                         is_read |-> d.is_read,
                         is_deleted |-> FALSE,
                         is_flagged |-> FALSE,
                         is_starred |-> FALSE]
    IN  IF is_email_exists(db, email_id)
        THEN [db |-> db, rec |-> TRUE]
        ELSE IF ~parsed_email.ok
        THEN [db |-> db, rec |-> FALSE]
        ELSE IF InsertOk(db, email_record)
        THEN [db |-> db \cup {email_record}, rec |-> TRUE]
        ELSE [db |-> db, rec |-> is_email_exists(db, email_id)]

\* tasks.process_new_email: reads email_data['raw_content'] (KeyError when
\* the key is missing), parses, inserts a row keyed by the parser's id; every
\* failure raises and leaves the table as it was.
process_new_email(db, d, fresh) ==
    LET parsed_email == parse_email(d.raw_content, fresh)
        email_record == [id |-> parsed_email.id,
                         message_id |-> parsed_email.message_id,
                         is_read |-> d.is_read,
                         is_deleted |-> FALSE,
                         is_flagged |-> FALSE,
                         is_starred |-> FALSE]
    IN  IF d.raw_content.present /\ parsed_email.ok /\ InsertOk(db, email_record)
        THEN db \cup {email_record}
        ELSE db

\* email_data dicts a producer other than IMAPManager.fetch_emails hands to
\* store_email_safely: 'uid', 'message_id', 'raw_content', 'is_read'.
EmailDataInputs ==
    { [id |-> NoKey, uid |-> u, message_id |-> m,
       raw_content |-> RawOf(tag, m), is_read |-> b] :
         u \in Uids, m \in Mids \cup {""}, tag \in {"none", "bad", "good"},
         b \in BOOLEAN }

NoStore ==
    [d |-> [id |-> NoKey, uid |-> NoKey, message_id |-> NoKey,
            raw_content |-> NoRaw, is_read |-> FALSE],
     rec |-> FALSE, second |-> FALSE, changed |-> FALSE]

InitStore ==
    /\ emails = {}
    /\ now = 0
    /\ lastStore = NoStore

\* One call of store_email_safely(d) against the table, with the record of
\* the call: whether the call before it stored the same email_data, and
\* whether this call changed the table.
CallStore(d) ==
    LET r == store_email_safely(emails, d, now) IN
    /\ emails' = r.db
    /\ lastStore' = [d |-> d, rec |-> r.rec,
                     second |-> (lastStore.d = d),
                     changed |-> (r.db # emails)]

\* background_tasks.process_new_email_task: store_email_safely(email_data).
process_new_email_task(d) ==
    /\ CallStore(d)
    /\ UNCHANGED <<now, serverVars, passVars, serviceVars, queueVars>>

\* the wall clock advances
Tick ==
    /\ now < MaxClock
    /\ now' = now + 1
    /\ UNCHANGED <<emails, lastStore, serverVars, passVars, serviceVars, queueVars>>

(***************************************************************************)
(* IMAP server and reconciliation passes                                   *)
(***************************************************************************)
\* A message on the server: its Message-ID header and whether its
\* X-Gmail-Labels header marks it unread.
Messages == [message_id : Mids \cup {""}, unread : BOOLEAN]

InitServer ==
    /\ mailbox = <<>>
    /\ uidvalidity = 1
    /\ seenValidity = 0

NoResult == [status |-> "", count |-> 0, skipped |-> 0]

NoInfo == [box |-> <<>>, limit |-> 0, connected |-> FALSE, clean |-> FALSE,
           changed |-> FALSE]

InitPass ==
    /\ passPc = [p \in Passes |-> "idle"]
    /\ passKind = [p \in Passes |-> "service"]
    /\ batch = [p \in Passes |-> <<>>]
    /\ passRes = [p \in Passes |-> NoResult]
    /\ passInfo = [p \in Passes |-> NoInfo]
    /\ overlapped = FALSE

\* A message arrives in the mailbox and gets the next message number.
ServerDeliver(m) ==
    /\ Len(mailbox) < MaxMsgs
    /\ m.message_id # "" => \A i \in DOMAIN mailbox : mailbox[i].message_id # m.message_id
    /\ mailbox' = Append(mailbox, m)
    /\ UNCHANGED <<uidvalidity, seenValidity, storeVars, passVars, serviceVars, queueVars>>

\* The mailbox is re-created: UIDVALIDITY changes and the message numbers
\* are handed out afresh, to the same messages in another order or after
\* the oldest one is gone.
ServerReset ==
    /\ uidvalidity < MaxValidity
    /\ uidvalidity' = uidvalidity + 1
    /\ \E drop \in BOOLEAN :
         mailbox' = IF drop /\ mailbox # <<>> THEN Tail(mailbox) ELSE Reverse(mailbox)
    /\ UNCHANGED <<seenValidity, storeVars, passVars, serviceVars, queueVars>>

\* IMAPManager._parse_email: the dict built for a fetched message; it has no
\* 'message_id', 'uid' or 'raw_content' key.
_parse_email(msg, uid) ==
    [id |-> uid, uid |-> NoKey, message_id |-> NoKey, raw_content |-> NoRaw,
     is_read |-> ~msg.unread]

RecentIdsOldestFirst(total, limit) ==
    LET start_idx == Max(0, total - limit)
    IN  [k \in 1..(total - start_idx) |-> start_idx + k]

\* fetch_emails, lines 283-285: the last `limit` message numbers, highest
\* first.
RecentIds(total, limit) ==
    LET start_idx == Max(0, total - limit)
    IN  [k \in 1..(total - start_idx) |-> total + 1 - k]

\* IMAPManager.fetch_emails: `fetched` are the message numbers whose FETCH
\* answered OK; a failure before the loop (no connection, SEARCH not OK)
\* returns the empty list.
fetch_emails(box, limit, connected, fetched) ==
    IF ~connected
    THEN <<>>
    ELSE LET ids == SelectSeq(RecentIds(Len(box), limit), LAMBDA i : i \in fetched)
         IN  [k \in 1..Len(ids) |-> _parse_email(box[ids[k]], ToString(ids[k]))]

\* The start of a pass, email_sync_service.sync_emails (kind "service",
\* lines 260-277) or tasks.sync_emails (kind "celery", lines 110-121): the
\* emails are fetched; an empty list ends the pass at once.
PassFetch(p, kind, limit) ==
    /\ passPc[p] \in {"idle", "done"}
    /\ \E connected \in BOOLEAN : \E fetched \in SUBSET (1..Len(mailbox)) :
         LET fetched_emails == fetch_emails(mailbox, limit, connected, fetched) IN
         /\ batch' = [batch EXCEPT ![p] = fetched_emails]
         /\ passInfo' = [passInfo EXCEPT ![p] =
                           [box |-> mailbox, limit |-> limit,
                            connected |-> connected,
                            clean |-> (connected /\ fetched = 1..Len(mailbox)),
                            changed |-> (seenValidity # 0 /\ uidvalidity # seenValidity)]]
         /\ passPc' = [passPc EXCEPT ![p] =
                           IF fetched_emails = <<>> THEN "done" ELSE "storing"]
         /\ passRes' = [passRes EXCEPT ![p] =
                           [status |-> IF fetched_emails = <<>> THEN "success" ELSE "",
                            count |-> 0, skipped |-> 0]]
    /\ passKind' = [passKind EXCEPT ![p] = kind]
    /\ overlapped' = (overlapped \/ \E q \in Passes \ {p} : passPc[q] = "storing")
    /\ seenValidity' = uidvalidity
    /\ UNCHANGED <<mailbox, uidvalidity, storeVars, serviceVars, queueVars>>

\* One iteration of the pass's loop over the fetched emails.
\*   service (email_sync_service.py 279-289): store_email_safely; a record
\*     counts as stored, None as skipped.
\*   celery (tasks.py 123-136): an email whose 'id' is a primary key of the
\*     table is passed over; otherwise process_new_email is queued and the
\*     email counted, whatever becomes of the queued task.
PassStore(p) ==
    /\ passPc[p] = "storing"
    /\ batch[p] # <<>>
    /\ LET email_data == Head(batch[p]) IN
       IF passKind[p] = "service"
       THEN /\ CallStore(email_data)
            /\ passRes' = [passRes EXCEPT ![p] =
                  IF store_email_safely(emails, email_data, now).rec
                  THEN [@ EXCEPT !.count = @ + 1]
                  ELSE [@ EXCEPT !.skipped = @ + 1]]
       ELSE IF is_email_exists(emails, email_data.id)
       THEN UNCHANGED <<emails, lastStore, passRes>>
       ELSE /\ emails' = process_new_email(emails, email_data,
                             "uuid:" \o ToString(Cardinality(emails)))
            /\ passRes' = [passRes EXCEPT ![p].count = @ + 1]
            /\ UNCHANGED lastStore
    /\ batch' = [batch EXCEPT ![p] = Tail(@)]
    /\ UNCHANGED <<now, passPc, passKind, passInfo, overlapped>>
    /\ UNCHANGED <<serverVars, serviceVars, queueVars>>

\* The pass returns its result dict (email_sync_service.py 291-300,
\* tasks.py 138-144).
PassFinish(p) ==
    /\ passPc[p] = "storing"
    /\ batch[p] = <<>>
    /\ passPc' = [passPc EXCEPT ![p] = "done"]
    /\ passRes' = [passRes EXCEPT ![p].status = "success"]
    /\ UNCHANGED <<passKind, batch, passInfo, overlapped>>
    /\ UNCHANGED <<storeVars, serverVars, serviceVars, queueVars>>

PoolAtRest ==
    /\ InitPool
    /\ nsess = max_connections

(***************************************************************************)
(* Local mutations and the pending-operation drain                         *)
(***************************************************************************)
\* A row of table `emails` as store_email_safely creates it.
Row(id, message_id, is_read) ==
    [id |-> id, message_id |-> message_id, is_read |-> is_read,
     is_deleted |-> FALSE, is_flagged |-> FALSE, is_starred |-> FALSE]

\* Primary keys of stored rows: "IMAP UID or Message-ID hash" (models.py).
StoredIds == {"1", Md5("a")}

\* Email.query.get(id) on a table that has the row
EmailGet(db, id) == CHOOSE r \in db : r.id = id

\* the table after a commit that changed one row
SetRow(db, new) == {IF r.id = new.id THEN new ELSE r : r \in db}

\* EmailSyncService.get_cached_emails: `from app import cache` (line 36,
\* outside the try) raises ImportError, app.py defines no name `cache`.
get_cached_emails == [raises |-> TRUE, data |-> {}]

\* EmailSyncService.get_emails_from_db, the ids of the page it returns: the
\* cached page when there is one, else the rows that are not deleted; the
\* empty page when anything raised (lines 360-365).
get_emails_from_db(db) ==
    IF get_cached_emails.raises
    THEN {}
    ELSE IF get_cached_emails.data # {}
    THEN get_cached_emails.data
    ELSE {r.id : r \in {x \in db : ~x.is_deleted}}

\* What get_email_detail returns for a message it does not find: None.
NoDetail == [found |-> FALSE, is_read |-> FALSE, is_flagged |-> FALSE,
             is_starred |-> FALSE]

\* EmailSyncService.get_cached_email_detail: `from app import cache` (line
\* 58, outside the try) raises ImportError, app.py defines no name `cache`.
get_cached_email_detail == [raises |-> TRUE, data |-> NoDetail]

\* EmailSyncService.get_email_detail: the cached dict when there is one,
\* else the row's to_dict(); None when the row is missing or anything
\* raised (lines 390-392).
get_email_detail(db, email_id) ==
    IF get_cached_email_detail.raises
    THEN NoDetail
    ELSE IF get_cached_email_detail.data.found
    THEN get_cached_email_detail.data
    ELSE IF is_email_exists(db, email_id)
    THEN LET email == EmailGet(db, email_id)
         IN  [found |-> TRUE, is_read |-> email.is_read,
              is_flagged |-> email.is_flagged, is_starred |-> email.is_starred]
    ELSE NoDetail

\* The single-message handlers of app.py.
HandlerKinds == {"read", "unread", "flag", "star", "delete"}

\* EmailOperation.operation_type values the handlers enqueue.
OpKinds == {"read", "unread", "flag", "unflag", "delete"}

\* execute_operation issues a command for these kinds only.
RemoteKinds == {"read", "unread", "delete"}

OptimisticUpdateSkipped(r, kind) == r

OptimisticUpdateNoTombstone(r, kind) ==
    CASE kind = "read"   -> [r EXCEPT !.is_read = TRUE]
      [] kind = "unread" -> [r EXCEPT !.is_read = FALSE]
      [] kind = "flag"   -> [r EXCEPT !.is_flagged = ~@]
      [] kind = "star"   -> [r EXCEPT !.is_starred = ~@]
      [] kind = "delete" -> r

\* The status change a handler commits first: mark_as_read, mark_as_unread,
\* flag_email (toggle), star_email (toggle), delete_email.
OptimisticUpdate(r, kind) ==
    CASE kind = "read"   -> [r EXCEPT !.is_read = TRUE]
      [] kind = "unread" -> [r EXCEPT !.is_read = FALSE]
      [] kind = "flag"   -> [r EXCEPT !.is_flagged = ~@]
      [] kind = "star"   -> [r EXCEPT !.is_starred = ~@]
      [] kind = "delete" -> [r EXCEPT !.is_deleted = TRUE]

\* batch_operations, lines 389-398
BatchUpdate(r, operation) ==
    CASE operation = "read"   -> [r EXCEPT !.is_read = TRUE]
      [] operation = "unread" -> [r EXCEPT !.is_read = FALSE]
      [] operation = "delete" -> [r EXCEPT !.is_deleted = TRUE]
      [] operation = "flag"   -> [r EXCEPT !.is_flagged = TRUE]
      [] operation = "unflag" -> [r EXCEPT !.is_flagged = FALSE]

\* EmailOperation(email_uid=..., operation_type=...): status 'pending',
\* retry_count 0 by the column defaults.
NewOp(email_uid, operation_type) ==
    [email_uid |-> email_uid, operation_type |-> operation_type,
     status |-> "pending", retry_count |-> 0]

\* flag_email, line 294: the kind is read from the row after the commit.
EnqueuedType(r, kind) ==
    IF kind = "flag" THEN (IF r.is_flagged THEN "flag" ELSE "unflag") ELSE kind

NoReq == [pc |-> "idle", kind |-> "", email_id |-> ""]

NoReturn == [items |-> 0, enq |-> 0]

\* No reconciliation pass has met the stored message yet.
NoSeen == [kind |-> "", unread |-> FALSE]

\* A command in progress: the operation, the retry_count the drain's session
\* loaded for it, whether the leased session is up, and the outcome.
NoAttempt == [op |-> 0, loaded |-> 0, up |-> FALSE, success |-> FALSE]

InitQueue ==
    /\ operations = <<>>
    /\ req = NoReq
    /\ lastReq = NoReturn
    /\ drainPc = "idle"
    /\ todo = <<>>
    /\ attempt = NoAttempt
    /\ effects = <<>>
    /\ staleSeen = {}
    /\ lastSeen = NoSeen
    /\ purged = {}
    /\ published = <<>>
    /\ taskPc = "idle"
    /\ taskTodo = <<>>
    /\ taskAttempt = NoAttempt
    /\ attempts = [i \in 1..MaxOps |-> 0]

\* A handler up to its first commit: the row is looked up (404 when it is
\* missing, nothing changes) and the status change is committed.
\* star_email returns right after this commit.
RequestStart(kind, email_id) ==
    /\ req.pc = "idle"
    /\ Len(operations) < MaxOps
    /\ is_email_exists(emails, email_id)
    /\ emails' = SetRow(emails, OptimisticUpdate(EmailGet(emails, email_id), kind))
    /\ IF kind = "star"
       THEN /\ lastReq' = [items |-> 1, enq |-> 0]
            /\ UNCHANGED req
       ELSE /\ req' = [pc |-> "flagged", kind |-> kind, email_id |-> email_id]
            /\ UNCHANGED lastReq
    /\ UNCHANGED <<operations, drainPc, todo, attempt, effects, staleSeen, lastSeen>>
    /\ UNCHANGED <<purged, published>>
    /\ UNCHANGED <<now, lastStore, serverVars, passVars, serviceVars>>
    /\ UNCHANGED <<taskVars, attempts>>

\* redis_client.publish_email_event(event_type, data) as the handlers call
\* it: mark_as_read, mark_as_unread, delete_email and batch_operations
\* publish, flag_email does not.  Of an event the model keeps the email ids
\* its data names.
publish_email_event(bus, kind, email_ids) ==
    IF kind \in {"read", "unread", "delete", "batch"}
    THEN Append(bus, [email_ids |-> email_ids])
    ELSE bus

\* The handler's second commit: the EmailOperation row; then the event is
\* published and the handler returns.
RequestEnqueue ==
    /\ req.pc = "flagged"
    /\ operations' = Append(operations,
          NewOp(req.email_id, EnqueuedType(EmailGet(emails, req.email_id), req.kind)))
    /\ lastReq' = [items |-> 1, enq |-> 1]
    /\ req' = NoReq
    /\ published' = publish_email_event(published, req.kind, <<req.email_id>>)
    /\ UNCHANGED <<drainPc, todo, attempt, effects, staleSeen, lastSeen, purged>>
    /\ UNCHANGED <<storeVars, serverVars, passVars, serviceVars>>
    /\ UNCHANGED <<taskVars, attempts>>

\* The handler's second commit raises (the database refuses the INSERT of
\* the EmailOperation row): the except branch answers 500.  The status
\* change of the first commit stays, there is no rollback and no operation.
RequestEnqueueFails ==
    /\ req.pc = "flagged"
    /\ lastReq' = [items |-> 1, enq |-> 0]
    /\ req' = NoReq
    /\ UNCHANGED <<operations, published>>
    /\ UNCHANGED <<drainPc, todo, attempt, effects, staleSeen, lastSeen, purged>>
    /\ UNCHANGED <<storeVars, serverVars, passVars, serviceVars>>
    /\ UNCHANGED <<taskVars, attempts>>

\* A handler that answers 404: Email.query.get(email_id) finds no row
\* (mark_as_read, lines 207-209, and alike); nothing is written.
RequestRejected(email_id) ==
    /\ req.pc = "idle"
    /\ ~is_email_exists(emails, email_id)
    /\ lastReq' = NoReturn
    /\ UNCHANGED <<operations, req, published>>
    /\ UNCHANGED <<drainPc, todo, attempt, effects, staleSeen, lastSeen, purged>>
    /\ UNCHANGED <<storeVars, serverVars, passVars, serviceVars>>
    /\ UNCHANGED <<taskVars, attempts>>

\* batch_operations answers 400: the operation is not one of the five it
\* knows (line 378) or no uids are given (line 381); nothing is written.
batch_rejected(operation, uids) ==
    /\ req.pc = "idle"
    /\ operation \notin OpKinds \/ uids = <<>>
    /\ lastReq' = NoReturn
    /\ UNCHANGED <<operations, req, published>>
    /\ UNCHANGED <<drainPc, todo, attempt, effects, staleSeen, lastSeen, purged>>
    /\ UNCHANGED <<storeVars, serverVars, passVars, serviceVars>>
    /\ UNCHANGED <<taskVars, attempts>>

\* batch_operations, lines 386-406: the rows and operations of the loop.
RECURSIVE BatchRows(_, _, _)
BatchRows(db, operation, uids) ==
    IF uids = <<>>
    THEN db
    ELSE BatchRows(IF is_email_exists(db, Head(uids))
                   THEN SetRow(db, BatchUpdate(EmailGet(db, Head(uids)), operation))
                   ELSE db,
                   operation, Tail(uids))

BatchOps(db, operation, uids) ==
    LET known == SelectSeq(uids, LAMBDA u : is_email_exists(db, u))
    IN  [k \in 1..Len(known) |-> NewOp(known[k], operation)]

BatchUids == UNION {[1..n -> StoredIds] : n \in 1..2}

\* batch_operations: every known uid is updated and gets an operation, all in
\* one commit (line 408); then one 'batch_operation' event is published.
batch_operations(operation, uids) ==
    /\ req.pc = "idle"
    /\ Len(operations) + Len(uids) <= MaxOps
    /\ BatchOps(emails, operation, uids) # <<>>
    /\ emails' = BatchRows(emails, operation, uids)
    /\ operations' = operations \o BatchOps(emails, operation, uids)
    /\ lastReq' = [items |-> Len(BatchOps(emails, operation, uids)),
                   enq |-> Len(BatchOps(emails, operation, uids))]
    /\ published' = publish_email_event(published, "batch",
                        [k \in 1..Len(BatchOps(emails, operation, uids)) |->
                            BatchOps(emails, operation, uids)[k].email_uid])
    /\ UNCHANGED <<req, drainPc, todo, attempt, effects, staleSeen, lastSeen, purged>>
    /\ UNCHANGED <<now, lastStore, serverVars, passVars, serviceVars>>
    /\ UNCHANGED <<taskVars, attempts>>

\* All orders in which a query without ORDER BY can return the rows S.
Orders(S) ==
    {s \in [1..Cardinality(S) -> S] : \A i, j \in DOMAIN s : i # j => s[i] # s[j]}

Pending == {i \in DOMAIN operations : operations[i].status = "pending"}

\* UID STORE addresses a message by its UID, a number; any other message
\* set is rejected by the server (imaplib raises, execute_operation catches).
ServerAccepts(email_uid) == email_uid \in Uids

\* IMAPManager.execute_operation: True only when the session is up, the kind
\* is one it knows and the server answers OK.
execute_operation(operation_type, email_uid, up) ==
    /\ up
    /\ operation_type \in RemoteKinds
    /\ ServerAccepts(email_uid)

\* process_pending_operations, line 200 (process_pending_operations_task,
\* line 69): the pending operations are read, in no specified order.
DrainStart ==
    /\ drainPc = "idle"
    /\ Pending # {}
    /\ \E order \in Orders(Pending) : todo' = order
    /\ drainPc' = "running"
    /\ UNCHANGED <<operations, req, lastReq, attempt, effects, staleSeen, lastSeen>>
    /\ UNCHANGED <<purged, published>>
    /\ UNCHANGED <<storeVars, serverVars, passVars, serviceVars>>
    /\ UNCHANGED <<taskVars, attempts>>

\* The first half of an iteration (tasks.py 207-218): an operation at its
\* retry ceiling is marked failed; for any other the command is issued.
DrainIssue ==
    /\ drainPc = "running"
    /\ LET i == Head(todo)
           operation == operations[i]
       IN  IF operation.retry_count >= max_retries
           THEN /\ operations' = [operations EXCEPT ![i].status = "failed"]
                /\ todo' = Tail(todo)
                /\ drainPc' = IF Tail(todo) = <<>> THEN "idle" ELSE "running"
                /\ UNCHANGED <<attempt, effects, attempts>>
           ELSE /\ \E up \in BOOLEAN :
                     LET success == execute_operation(operation.operation_type,
                                                      operation.email_uid, up)
                     IN  /\ attempt' = [op |-> i, loaded |-> operation.retry_count,
                                        up |-> up, success |-> success]
                         /\ effects' = IF success THEN Append(effects, i) ELSE effects
                /\ attempts' = [attempts EXCEPT ![i] = @ + 1]
                /\ drainPc' = "issued"
                /\ UNCHANGED <<operations, todo>>
    /\ UNCHANGED <<req, lastReq, staleSeen, lastSeen, purged, published>>
    /\ UNCHANGED <<storeVars, serverVars, passVars, serviceVars>>
    /\ UNCHANGED taskVars

\* The second half (tasks.py 220-227): the outcome is committed -- the
\* status, or the retry_count the session loaded plus one.
DrainRecord ==
    /\ drainPc = "issued"
    /\ LET i == Head(todo) IN
       operations' = IF attempt.success
                     THEN [operations EXCEPT ![i].status = "success"]
                     ELSE [operations EXCEPT ![i].retry_count = attempt.loaded + 1]
    /\ todo' = Tail(todo)
    /\ attempt' = NoAttempt
    /\ drainPc' = IF Tail(todo) = <<>> THEN "idle" ELSE "running"
    /\ staleSeen' = staleSeen \ {Head(todo)}
    /\ UNCHANGED lastSeen
    /\ UNCHANGED <<req, lastReq, effects, purged, published>>
    /\ UNCHANGED <<storeVars, serverVars, passVars, serviceVars>>
    /\ UNCHANGED <<taskVars, attempts>>

\* background_tasks.process_pending_operations_task, which the in-process
\* scheduler queues every ten minutes (start_periodic_tasks) next to the
\* worker's own drain: line 69, the pending operations are read.
TaskStart ==
    /\ taskPc = "idle"
    /\ Pending # {}
    /\ \E order \in Orders(Pending) : taskTodo' = order
    /\ taskPc' = "running"
    /\ UNCHANGED <<operations, req, lastReq, drainPc, todo, attempt, effects, staleSeen, lastSeen>>
    /\ UNCHANGED <<purged, published, taskAttempt, attempts>>
    /\ UNCHANGED <<storeVars, serverVars, passVars, serviceVars>>

\* lines 70-76: an operation at its retry ceiling is marked failed; for any
\* other the command is issued.
TaskIssue ==
    /\ taskPc = "running"
    /\ LET i == Head(taskTodo)
           op == operations[i]
       IN  IF op.retry_count >= max_retries
           THEN /\ operations' = [operations EXCEPT ![i].status = "failed"]
                /\ taskTodo' = Tail(taskTodo)
                /\ taskPc' = IF Tail(taskTodo) = <<>> THEN "idle" ELSE "running"
                /\ UNCHANGED <<taskAttempt, effects, attempts>>
           ELSE /\ \E up \in BOOLEAN :
                     LET success == execute_operation(op.operation_type, op.email_uid, up)
                     IN  /\ taskAttempt' = [op |-> i, loaded |-> op.retry_count,
                                            up |-> up, success |-> success]
                         /\ effects' = IF success THEN Append(effects, i) ELSE effects
                /\ attempts' = [attempts EXCEPT ![i] = @ + 1]
                /\ taskPc' = "issued"
                /\ UNCHANGED <<operations, taskTodo>>
    /\ UNCHANGED <<req, lastReq, drainPc, todo, attempt, staleSeen, lastSeen, purged, published>>
    /\ UNCHANGED <<storeVars, serverVars, passVars, serviceVars>>

\* lines 77-82: the outcome is committed.
TaskRecord ==
    /\ taskPc = "issued"
    /\ LET i == Head(taskTodo) IN
       operations' = IF taskAttempt.success
                     THEN [operations EXCEPT ![i].status = "success"]
                     ELSE [operations EXCEPT ![i].retry_count = taskAttempt.loaded + 1]
    /\ taskTodo' = Tail(taskTodo)
    /\ taskAttempt' = NoAttempt
    /\ taskPc' = IF Tail(taskTodo) = <<>> THEN "idle" ELSE "running"
    /\ UNCHANGED <<req, lastReq, drainPc, todo, attempt, effects, staleSeen, lastSeen>>
    /\ UNCHANGED <<purged, published, attempts>>
    /\ UNCHANGED <<storeVars, serverVars, passVars, serviceVars>>

\* A reconciliation pass meets the stored message again: the server holds it
\* as message 1 and reports it read or unread.  The service pass hands the
\* fetched dict to store_email_safely, the celery pass looks the id up and
\* queues process_new_email when it is not a primary key.  A mark-read that
\* is still waiting for its first drain when the pass sees the message
\* unread is remembered.
Reconcile(kind, unread) ==
    LET email_data == _parse_email([message_id |-> "a", unread |-> unread], "1") IN
    /\ emails' = IF kind = "service"
                 THEN store_email_safely(emails, email_data, now).db
                 ELSE IF is_email_exists(emails, email_data.id)
                 THEN emails
                 ELSE process_new_email(emails, email_data, "uuid:0")
    /\ lastSeen' = [kind |-> kind, unread |-> unread]
    /\ staleSeen' = staleSeen \cup
          {i \in Pending : /\ operations[i].operation_type = "read"
                           /\ operations[i].retry_count = 0
                           /\ ~(drainPc = "issued" /\ attempt.op = i)
                           /\ ~email_data.is_read}
    /\ UNCHANGED <<operations, req, lastReq, drainPc, todo, attempt, effects>>
    /\ UNCHANGED <<purged, published>>
    /\ UNCHANGED <<now, lastStore, serverVars, passVars, serviceVars>>
    /\ UNCHANGED <<taskVars, attempts>>

\* tasks.cleanup_failed_tasks, run hourly by the beat schedule: the failed
\* operations created before the cutoff (seven days ago) are deleted.  Rows
\* are created in insertion order, so those older than the cutoff are the
\* first k.
cleanup_failed_tasks ==
    /\ \E k \in 1..Len(operations) :
         LET old_operations == {i \in 1..k : operations[i].status = "failed"} \ purged
         IN  /\ old_operations # {}
             /\ purged' = purged \cup old_operations
    /\ UNCHANGED <<operations, req, lastReq, drainPc, todo, attempt, effects,
                   staleSeen, lastSeen, published>>
    /\ UNCHANGED <<storeVars, serverVars, passVars, serviceVars>>
    /\ UNCHANGED <<taskVars, attempts>>

(***************************************************************************)
(* Change listener                                                         *)
(***************************************************************************)
\* The library calls of the loop (idle, response, done) are the server's and
\* the network's to answer: each one succeeds or raises.  A leased session
\* yields its connection when it is live.
InitIdle ==
    /\ idle_running = FALSE
    /\ idle_thread = 0
    /\ nloops = 0
    /\ loopPc = [l \in Loops |-> "none"]
    /\ loopHeld = [l \in Loops |-> 0]
    /\ is_idle = [s \in Sessions |-> FALSE]
    /\ stopPc = "idle"
    /\ responses = {}
    /\ missed = FALSE
    /\ nchanges = 0
    /\ imapEvents = 0
    /\ stoppedWaiting = 0

\* the pool variables no listener action writes
poolRest == <<connections, lockOwner, pc, held, lastReleased, sweepPc, sweepTodo,
              sweepNew>>

\* The listener threads that have been started and have not returned.
Alive == {l \in Loops : loopPc[l] \notin {"none", "exited"}}

\* start_idle, lines 185-194: under idle_lock; nothing happens when
\* idle_running is set, otherwise it is set and a new thread is started.
start_idle ==
    /\ stopPc = "idle"
    /\ IF idle_running
       THEN UNCHANGED <<idle_running, idle_thread, nloops, loopPc, stoppedWaiting>>
       ELSE /\ nloops < MaxLoops
            /\ idle_running' = TRUE
            /\ nloops' = nloops + 1
            /\ idle_thread' = nloops + 1
            /\ loopPc' = [loopPc EXCEPT ![nloops + 1] = "test"]
            /\ stoppedWaiting' = 0
    /\ UNCHANGED <<loopHeld, is_idle, stopPc, responses, missed, nchanges, imapEvents>>
    /\ UNCHANGED <<poolVars, appVars>>

\* stop_idle, lines 198-200: idle_lock is taken and idle_running cleared;
\* with a thread on record the caller goes on to join it.
stop_idle ==
    /\ stopPc = "idle"
    /\ idle_running' = FALSE
    /\ stopPc' = IF idle_thread = 0 THEN "idle" ELSE "joining"
    /\ stoppedWaiting' = IF idle_thread # 0 /\ loopPc[idle_thread] = "listening"
                         THEN idle_thread ELSE 0
    /\ UNCHANGED <<idle_thread, nloops, loopPc, loopHeld, is_idle, responses, missed,
                   nchanges, imapEvents>>
    /\ UNCHANGED <<poolVars, appVars>>

\* The places of the loop where a thread can stay longer than the five
\* seconds join waits: time.sleep(5), time.sleep(10), the ten-second wait on
\* an empty idle queue, and a put on a full idle queue.
OutlastsJoin(l) ==
    \/ loopPc[l] \in {"sleeping5", "sleeping10"}
    \/ loopPc[l] = "leasing" /\ available = <<>>
    \/ loopPc[l] \in {"putting", "puttingX"} /\ ~QueueCanPut(available)

\* stop_idle, lines 201-202: join(timeout=5) returns, because the thread
\* has ended or because the five seconds are over; idle_lock is released.
stop_idle_join ==
    /\ stopPc = "joining"
    /\ loopPc[idle_thread] = "exited" \/ OutlastsJoin(idle_thread)
    /\ stopPc' = "idle"
    /\ UNCHANGED <<idle_running, idle_thread, nloops, loopPc, loopHeld, is_idle,
                   responses, missed, nchanges, imapEvents, stoppedWaiting>>
    /\ UNCHANGED <<poolVars, appVars>>

\* app.py, startup (lines 591-610), run once when the module is loaded: it
\* starts the listener through start_imap_idle.
startup ==
    /\ nloops = 0
    /\ start_idle

\* app.py, shutdown_session (lines 613-620): registered with
\* @app.teardown_appcontext, so Flask calls it whenever an application
\* context is popped, that is at the end of every request it has served; it
\* calls stop_imap_idle, which calls imap_manager.stop_idle().
shutdown_session == stop_idle

\* _idle_loop, line 207: `while self.idle_running`.
LoopTest(l) ==
    /\ loopPc[l] = "test"
    /\ loopPc' = [loopPc EXCEPT ![l] = IF idle_running THEN "leasing" ELSE "exited"]
    /\ UNCHANGED <<idle_running, idle_thread, nloops, loopHeld, is_idle, stopPc,
                   responses, missed, nchanges, imapEvents, stoppedWaiting>>
    /\ UNCHANGED <<poolVars, appVars>>

\* line 209: the lease of the pool.  An idle session is taken; with an empty
\* queue a temporary session is connected, and when that fails the
\* exception sends the loop to its handler (lines 239-247).
LoopLease(l) ==
    /\ loopPc[l] = "leasing"
    /\ IF available # <<>>
       THEN /\ loopHeld' = [loopHeld EXCEPT ![l] = QueueGetItem(available)]
            /\ available' = QueueGetRest(available)
            /\ loopPc' = [loopPc EXCEPT ![l] = "leased"]
            /\ UNCHANGED <<nsess, live>>
       ELSE \E ok \in BOOLEAN :
              IF ok /\ nsess < MaxSessions
              THEN /\ nsess' = nsess + 1
                   /\ live' = [live EXCEPT ![nsess + 1] = TRUE]
                   /\ loopHeld' = [loopHeld EXCEPT ![l] = nsess + 1]
                   /\ loopPc' = [loopPc EXCEPT ![l] = "leased"]
                   /\ UNCHANGED available
              ELSE /\ loopPc' = [loopPc EXCEPT ![l] = "sleeping10"]
                   /\ UNCHANGED <<nsess, live, loopHeld, available>>
    /\ UNCHANGED <<idle_running, idle_thread, nloops, is_idle, stopPc, responses,
                   missed, nchanges, imapEvents, stoppedWaiting>>
    /\ UNCHANGED <<poolRest, appVars>>

\* lines 211-218: conn.get_connection() gives None for a session that is not
\* connected, and the loop sleeps five seconds inside the with-block;
\* otherwise imap_conn.idle() is called: when it returns the session is in
\* IDLE, when it raises the with-block is left by the exception.
LoopIdle(l) ==
    /\ loopPc[l] = "leased"
    /\ LET s == loopHeld[l] IN
       IF ~live[s]
       THEN /\ loopPc' = [loopPc EXCEPT ![l] = "sleeping5"]
            /\ UNCHANGED is_idle
       ELSE \E ok \in BOOLEAN :
              IF ok
              THEN /\ is_idle' = [is_idle EXCEPT ![s] = TRUE]
                   /\ loopPc' = [loopPc EXCEPT ![l] = "listening"]
              ELSE /\ loopPc' = [loopPc EXCEPT ![l] = "releasingX"]
                   /\ UNCHANGED is_idle
    /\ UNCHANGED <<idle_running, idle_thread, nloops, loopHeld, stopPc, responses,
                   missed, nchanges, imapEvents, stoppedWaiting>>
    /\ UNCHANGED <<poolVars, appVars>>

\* IMAPManager._handle_new_email: one 'new_email' event on 'imap_events'.
_handle_new_email(n) == n + 1

\* lines 221-232, one round of the inner loop that does not end in
\* time.sleep(1): the loop is left because idle_running was cleared, because
\* the connection is lost (imaplib.IMAP4.abort), or because a response of
\* the server is there, which _handle_new_email announces.
LoopPoll(l) ==
    /\ loopPc[l] = "listening"
    /\ LET s == loopHeld[l] IN
       /\ ~idle_running \/ ~live[s] \/ s \in responses
       /\ IF idle_running /\ live[s]
          THEN /\ imapEvents' = _handle_new_email(imapEvents)
               /\ missed' = FALSE
               /\ responses' = responses \ {s}
          ELSE UNCHANGED <<imapEvents, missed, responses>>
    /\ loopPc' = [loopPc EXCEPT ![l] = "ending"]
    /\ UNCHANGED <<idle_running, idle_thread, nloops, loopHeld, is_idle, stopPc,
                   nchanges, stoppedWaiting>>
    /\ UNCHANGED <<poolVars, appVars>>

\* lines 235-237: a session still marked is_idle is taken out of IDLE with
\* done(), which raises on a lost connection.
LoopEndIdle(l) ==
    /\ loopPc[l] = "ending"
    /\ LET s == loopHeld[l] IN
       IF is_idle[s] /\ ~live[s]
       THEN /\ loopPc' = [loopPc EXCEPT ![l] = "releasingX"]
            /\ UNCHANGED <<is_idle, responses>>
       ELSE /\ is_idle' = [is_idle EXCEPT ![s] = FALSE]
            /\ responses' = responses \ {s}
            /\ loopPc' = [loopPc EXCEPT ![l] = "releasing"]
    /\ UNCHANGED <<idle_running, idle_thread, nloops, loopHeld, stopPc, missed,
                   nchanges, imapEvents, stoppedWaiting>>
    /\ UNCHANGED <<poolVars, appVars>>

\* What the loop does once the with-block is left: line 207 again, or, when
\* an exception left it, the handler of lines 239-247, which ends in
\* time.sleep(10).
AfterRelease(at) == IF at \in {"releasing", "putting"} THEN "test" ELSE "sleeping10"

\* The handler of lines 239-247 on the session the loop last leased: when
\* it is marked is_idle, done() is tried and the mark cleared when done()
\* returns.
HandlerClears(at, s, cleared) ==
    IF at \in {"releasingX", "puttingX"} /\ is_idle[s] /\ cleared
    THEN [is_idle EXCEPT ![s] = FALSE]
    ELSE is_idle

\* The release of the lease (pool.get_connection, lines 125-132): the probe;
\* a session that fails it is reconnected, and dropped when that fails too.
LoopRelease(l) ==
    /\ loopPc[l] \in {"releasing", "releasingX"}
    /\ LET s == loopHeld[l] IN
       \E reconnect \in BOOLEAN : \E cleared \in BOOLEAN :
         IF live[s] \/ reconnect
         THEN /\ live' = [live EXCEPT ![s] = TRUE]
              /\ loopPc' = [loopPc EXCEPT ![l] =
                               IF @ = "releasing" THEN "putting" ELSE "puttingX"]
              /\ UNCHANGED <<loopHeld, is_idle>>
         ELSE /\ loopPc' = [loopPc EXCEPT ![l] = AfterRelease(@)]
              /\ loopHeld' = [loopHeld EXCEPT ![l] = 0]
              /\ is_idle' = HandlerClears(loopPc[l], s, cleared)
              /\ UNCHANGED live
    /\ UNCHANGED <<idle_running, idle_thread, nloops, stopPc, responses, missed,
                   nchanges, imapEvents, stoppedWaiting>>
    /\ UNCHANGED <<connections, available, lockOwner, nsess, pc, held, lastReleased,
                   sweepPc, sweepTodo, sweepNew>>
    /\ UNCHANGED appVars

\* lines 128 / 132: available_connections.put(conn), which waits while the
\* idle queue is full; then the loop goes on.
LoopPut(l) ==
    /\ loopPc[l] \in {"putting", "puttingX"}
    /\ QueueCanPut(available)
    /\ available' = Append(available, loopHeld[l])
    /\ loopHeld' = [loopHeld EXCEPT ![l] = 0]
    /\ \E cleared \in BOOLEAN :
         is_idle' = HandlerClears(loopPc[l], loopHeld[l], cleared)
    /\ loopPc' = [loopPc EXCEPT ![l] = AfterRelease(@)]
    /\ UNCHANGED <<idle_running, idle_thread, nloops, stopPc, responses, missed,
                   nchanges, imapEvents, stoppedWaiting>>
    /\ UNCHANGED <<nsess, live, poolRest, appVars>>

\* time.sleep(5) (line 213) is over: `continue` leaves the with-block;
\* time.sleep(10) (line 247) is over: back to line 207.
LoopWake(l) ==
    /\ loopPc[l] \in {"sleeping5", "sleeping10"}
    /\ loopPc' = [loopPc EXCEPT ![l] = IF @ = "sleeping5" THEN "releasing" ELSE "test"]
    /\ UNCHANGED <<idle_running, idle_thread, nloops, loopHeld, is_idle, stopPc,
                   responses, missed, nchanges, imapEvents, stoppedWaiting>>
    /\ UNCHANGED <<poolVars, appVars>>

\* The mailbox changes on the server: the sessions that are in IDLE get an
\* untagged response; when none is, nobody is told.
ServerChange ==
    /\ nchanges < MaxChanges
    /\ nchanges' = nchanges + 1
    /\ LET listening == {loopHeld[l] : l \in {k \in Loops : loopPc[k] = "listening"}}
           told == {s \in listening : live[s] /\ is_idle[s]}
       IN  IF told # {}
           THEN /\ responses' = responses \cup told
                /\ UNCHANGED missed
           ELSE /\ missed' = (missed \/ \E l \in Loops :
                                          loopPc[l] \in {"sleeping5", "sleeping10"})
                /\ UNCHANGED responses
    /\ UNCHANGED <<idle_running, idle_thread, nloops, loopPc, loopHeld, is_idle,
                   stopPc, imapEvents, stoppedWaiting>>
    /\ UNCHANGED <<poolVars, appVars>>

LoopStep(l) ==
    \/ LoopTest(l)
    \/ LoopLease(l)
    \/ LoopIdle(l)
    \/ LoopPoll(l)
    \/ LoopEndIdle(l)
    \/ LoopRelease(l)
    \/ LoopPut(l)
    \/ LoopWake(l)

(***************************************************************************)
(* In-process scheduler (background_tasks.py)                              *)
(***************************************************************************)
Workers == 1..num_workers

TaskNames == {"periodic_sync_task", "sync_emails_task",
              "process_pending_operations_task", "process_new_email_task"}

\* A worker thread waiting in task_queue.get().
Waiting == [task |-> "", returns |-> TRUE]

\* TaskManager.__init__ and _start_workers: an empty queue and num_workers
\* threads waiting for a task.
InitSched ==
    /\ task_queue = <<>>
    /\ workers = [w \in Workers |-> Waiting]
    /\ rounds = 0
    /\ started = [t \in TaskNames |-> 0]

\* TaskManager.add_task, n times.
add_task(q, task, n) == q \o [k \in 1..n |-> task]

\* One round of periodic_loop (lines 93-97): both tasks are queued, then the
\* loop sleeps ten minutes.
periodic_loop ==
    /\ rounds < MaxRounds
    /\ rounds' = rounds + 1
    /\ task_queue' = add_task(add_task(task_queue, "periodic_sync_task", 1),
                              "process_pending_operations_task", 1)
    /\ UNCHANGED <<workers, started>>
    /\ UNCHANGED <<poolVars, idleVars, busVars, reaperVars, storeVars, serverVars,
                   passVars, queueVars>>

\* The calls of the tasks that use an IMAP session can stay in that call for
\* ever (a socket without timeout, a lock that is never freed); the others
\* return.
MayBlock == {"sync_emails_task", "process_pending_operations_task"}

\* _worker_loop, lines 27-29: a waiting worker takes the oldest task and
\* calls it.  The threads are alike, so which of the waiting ones the queue
\* wakes makes no difference: it is the first of them.
WorkerGet(w) ==
    /\ workers[w] = Waiting
    /\ \A v \in Workers : v < w => workers[v] # Waiting
    /\ task_queue # <<>>
    /\ \E returns \in BOOLEAN :
         /\ returns \/ Head(task_queue) \in MayBlock
         /\ workers' = [workers EXCEPT ![w] = [task |-> Head(task_queue),
                                               returns |-> returns]]
    /\ task_queue' = Tail(task_queue)
    /\ started' = [started EXCEPT ![Head(task_queue)] = @ + 1]
    /\ UNCHANGED rounds
    /\ UNCHANGED <<poolVars, idleVars, busVars, reaperVars, storeVars, serverVars,
                   passVars, queueVars>>

\* _worker_loop, lines 29-32: the task returns or raises, and the worker
\* waits for the next one.  periodic_sync_task (line 87) queues a
\* sync_emails_task; sync_emails_task (lines 55-61) queues one
\* process_new_email_task for each email it fetched.
WorkerDone(w) ==
    /\ workers[w] # Waiting
    /\ workers[w].returns
    /\ workers' = [workers EXCEPT ![w] = Waiting]
    /\ \E raised \in BOOLEAN : \E fetched \in 0..MaxFetched :
         task_queue' =
            IF raised THEN task_queue
            ELSE IF workers[w].task = "periodic_sync_task"
            THEN add_task(task_queue, "sync_emails_task", 1)
            ELSE IF workers[w].task = "sync_emails_task"
            THEN add_task(task_queue, "process_new_email_task", fetched)
            ELSE task_queue
    /\ UNCHANGED <<rounds, started>>
    /\ UNCHANGED <<poolVars, idleVars, busVars, reaperVars, storeVars, serverVars,
                   passVars, queueVars>>

(***************************************************************************)
(* Event bus                                                               *)
(***************************************************************************)
NoPoll == [type |-> "", queued |-> 0]

InitBus ==
    /\ clients = {}
    /\ subscriptions = [c \in ClientIds |-> {}]
    /\ events = [c \in ClientIds |-> <<>>]
    /\ nevents = 0
    /\ nregistered = 0
    /\ last_ping = [c \in ClientIds |-> 0]
    /\ reaperPc = "cleanup"
    /\ InitSched
    /\ polls = [c \in ClientIds |-> "idle"]
    /\ delivered = [c \in ClientIds |-> <<>>]
    /\ lastPoll = [c \in ClientIds |-> NoPoll]
    /\ audience = [e \in 1..MaxEvents |-> {}]

pollVars == <<polls, delivered, lastPoll, nregistered>>

\* RealtimeService.register_client: a fresh entry with an empty queue and
\* the default subscription; an id that is registered already is replaced.
register_client(client_id) ==
    /\ clients' = clients \cup {client_id}
    /\ subscriptions' = [subscriptions EXCEPT ![client_id] = {"email_updates"}]
    /\ events' = [events EXCEPT ![client_id] = <<>>]
    /\ delivered' = [delivered EXCEPT ![client_id] = <<>>]
    /\ lastPoll' = [lastPoll EXCEPT ![client_id] = NoPoll]
    /\ nregistered' = nregistered + 1
    /\ last_ping' = [last_ping EXCEPT ![client_id] = now]
    /\ UNCHANGED <<nevents, polls, audience, reaperPc>>
    /\ UNCHANGED nonBusVars

\* RealtimeService.unregister_client: the entry is deleted; its queue lives
\* on for a get_client_events call that already holds it, and is gone with
\* the client's history otherwise.
unregister_client(client_id) ==
    /\ client_id \in clients
    /\ clients' = clients \ {client_id}
    /\ subscriptions' = [subscriptions EXCEPT ![client_id] = {}]
    /\ IF polls[client_id] = "waiting"
       THEN UNCHANGED <<events, delivered, lastPoll>>
       ELSE /\ events' = [events EXCEPT ![client_id] = <<>>]
            /\ delivered' = [delivered EXCEPT ![client_id] = <<>>]
            /\ lastPoll' = [lastPoll EXCEPT ![client_id] = NoPoll]
    /\ UNCHANGED <<nevents, nregistered, polls, audience, reaperVars>>
    /\ UNCHANGED nonBusVars

\* RealtimeService.subscribe_client
subscribe_client(client_id, event_types) ==
    /\ client_id \in clients
    /\ subscriptions' = [subscriptions EXCEPT ![client_id] = @ \cup event_types]
    /\ UNCHANGED <<clients, events, nevents, pollVars, audience, reaperVars>>
    /\ UNCHANGED nonBusVars

\* RealtimeService.unsubscribe_client
unsubscribe_client(client_id, event_types) ==
    /\ client_id \in clients
    /\ subscriptions[client_id] \cap event_types # {}
    /\ subscriptions' = [subscriptions EXCEPT ![client_id] = @ \ event_types]
    /\ UNCHANGED <<clients, events, nevents, pollVars, audience, reaperVars>>
    /\ UNCHANGED nonBusVars

\* Queue.put(event, block=False): queue.Full is raised when the queue has a
\* limit and holds that many items -- the caller skips the client -- and
\* otherwise the item is appended.
PutNoBlock(q, event) ==
    IF maxsize > 0 /\ Len(q) >= maxsize THEN q ELSE Append(q, event)

SubscribedToAnything(subs, event_type) == TRUE

\* broadcast_event, line 89: the test on the client's subscriptions.
Subscribed(subs, event_type) == event_type \in subs \/ "all" \in subs

\* RealtimeService.broadcast_event to all clients: every registered client
\* that subscribed to the event's type (or to 'all') gets the event.
broadcast_event(event_type) ==
    /\ nevents < MaxEvents
    /\ nevents' = nevents + 1
    /\ events' = [c \in ClientIds |->
                    IF c \in clients /\ Subscribed(subscriptions[c], event_type)
                    THEN PutNoBlock(events[c], [type |-> event_type, id |-> nevents + 1])
                    ELSE events[c]]
    /\ audience' = [audience EXCEPT ![nevents + 1] =
                       {c \in clients : subscriptions[c] \cap {event_type, "all"} # {}}]
    /\ UNCHANGED <<clients, subscriptions, pollVars, reaperVars>>
    /\ UNCHANGED nonBusVars

\* get_client_events, lines 100-108: under the lock the client is looked up
\* (None for an id that is not registered); then its queue is waited on.
PollBegin(client_id) ==
    /\ client_id \in clients
    /\ polls[client_id] = "idle"
    /\ polls' = [polls EXCEPT ![client_id] = "waiting"]
    /\ lastPoll' = [lastPoll EXCEPT ![client_id] = NoPoll]
    /\ last_ping' = [last_ping EXCEPT ![client_id] = now]
    /\ UNCHANGED <<clients, subscriptions, events, nevents, nregistered, delivered, audience>>
    /\ UNCHANGED reaperPc
    /\ UNCHANGED nonBusVars

\* get_client_events, lines 111-121: Queue.get(timeout) hands out the first
\* event of the queue as soon as there is one; when the queue is still
\* empty at the end of the timeout, queue.Empty is raised and a heartbeat
\* returned.
get_client_events(client_id) ==
    /\ polls[client_id] = "waiting"
    /\ polls' = [polls EXCEPT ![client_id] = "idle"]
    /\ IF events[client_id] # <<>>
       THEN /\ events' = [events EXCEPT ![client_id] = Tail(@)]
            /\ delivered' = [delivered EXCEPT ![client_id] =
                                Append(@, Head(events[client_id]).id)]
            /\ lastPoll' = [lastPoll EXCEPT ![client_id] =
                               [type |-> Head(events[client_id]).type,
                                queued |-> Len(events[client_id])]]
       ELSE /\ lastPoll' = [lastPoll EXCEPT ![client_id] =
                               [type |-> "heartbeat", queued |-> Len(events[client_id])]]
            /\ UNCHANGED <<events, delivered>>
    /\ UNCHANGED <<clients, subscriptions, nevents, nregistered, audience, reaperVars>>
    /\ UNCHANGED nonBusVars

\* The names bound in the module realtime_service when its functions run:
\* what lines 4-11 import.
ModuleNames == {"json", "logging", "threading", "time", "Dict", "List", "Any",
                "Optional", "Callable", "datetime", "Queue", "Empty", "uuid"}

\* RealtimeService._cleanup_clients: line 155 evaluates the name timedelta,
\* which raises NameError when the module does not bind it; otherwise the
\* clients whose last ping is older than the threshold are deleted.
_cleanup_clients(cl, pings, current_time) ==
    IF "timedelta" \notin ModuleNames
    THEN [raises |-> TRUE, clients |-> cl]
    ELSE LET timeout_threshold == current_time - client_timeout
             disconnected_clients == {c \in cl : pings[c] < timeout_threshold}
         IN  [raises |-> FALSE, clients |-> cl \ disconnected_clients]

\* One step of the processor thread in _process_events (lines 128-142).
\* At the top of the loop it calls _cleanup_clients; an exception of that
\* call is caught at line 140 and the thread sleeps a second, otherwise it
\* goes on to event_queue.get(timeout=1).  From either place it returns to
\* the top: nothing in the repository puts an event in event_queue, so the
\* get ends in queue.Empty and `continue`.
_process_events ==
    /\ IF reaperPc = "cleanup"
       THEN LET r == _cleanup_clients(clients, last_ping, now)
                gone == clients \ r.clients
            IN  /\ clients' = r.clients
                /\ subscriptions' = [c \in ClientIds |->
                                        IF c \in gone THEN {} ELSE subscriptions[c]]
                /\ reaperPc' = IF r.raises THEN "sleeping" ELSE "get"
       ELSE /\ reaperPc' = "cleanup"
            /\ UNCHANGED <<clients, subscriptions>>
    /\ UNCHANGED <<events, nevents, pollVars, audience, last_ping>>
    /\ UNCHANGED nonBusVars

\* Time passes on the clock of the event bus.
Elapse ==
    /\ now < MaxQuiet
    /\ now' = now + 1
    /\ UNCHANGED <<emails, lastStore, serverVars, passVars, serviceVars, queueVars>>

(***************************************************************************)
(* Specifications                                                          *)
(***************************************************************************)
InitPoolOnly ==
    /\ InitBus
    /\ InitPool
    /\ InitIdle
    /\ InitStore
    /\ InitServer
    /\ InitPass
    /\ InitQueue

InitSync ==
    /\ InitBus
    /\ PoolAtRest
    /\ InitIdle
    /\ InitStore
    /\ InitServer
    /\ InitPass
    /\ InitQueue

NextStore ==
    \/ Tick
    \/ \E d \in EmailDataInputs : process_new_email_task(d)

\* SpecSync: the server changes while passes run one after another.
SyncPasses == {1}

NextSync ==
    \/ \E m \in Messages : ServerDeliver(m)
    \/ ServerReset
    \/ \E p \in SyncPasses : \E kind \in {"service", "celery"} : \E limit \in Limits :
          PassFetch(p, kind, limit)
    \/ \E p \in SyncPasses : PassStore(p)
    \/ \E p \in SyncPasses : PassFinish(p)

\* SpecOverlap: the server holds its messages from the start and the passes
\* (scheduler sweep, manual sync, listener-triggered pass) run concurrently,
\* each with a limit that covers the mailbox.
InitialMailboxes ==
    {box \in UNION {[1..n -> Messages] : n \in 1..MaxMsgs} :
        \A i, j \in DOMAIN box :
            (i # j /\ box[i].message_id # "") => box[i].message_id # box[j].message_id}

InitOverlap ==
    /\ InitBus
    /\ PoolAtRest
    /\ InitIdle
    /\ InitStore
    /\ InitPass
    /\ InitQueue
    /\ mailbox \in InitialMailboxes
    /\ uidvalidity = 1
    /\ seenValidity = 0

NextOverlap ==
    \/ \E p \in Passes : \E kind \in {"service", "celery"} :
          PassFetch(p, kind, MaxLimit)
    \/ \E p \in Passes : PassStore(p)
    \/ \E p \in Passes : PassFinish(p)

\* SpecConverge: the server holds MaxMsgs messages and does not change; the
\* store knows some of them already, under their fingerprints; passes with
\* a limit smaller than the mailbox follow one another.
SmallLimit == MaxMsgs - 1

InitConverge ==
    /\ InitBus
    /\ PoolAtRest
    /\ InitIdle
    /\ InitPass
    /\ InitQueue
    /\ mailbox \in {box \in InitialMailboxes : Len(box) = MaxMsgs}
    /\ uidvalidity = 1
    /\ seenValidity = 0
    /\ now = 0
    /\ lastStore = NoStore
    /\ \E known \in SUBSET {i \in DOMAIN mailbox : mailbox[i].message_id # ""} :
          emails = {Row(Md5(mailbox[i].message_id), mailbox[i].message_id,
                        ~mailbox[i].unread) : i \in known}

NextConverge ==
    \/ \E kind \in {"service", "celery"} : PassFetch(1, kind, SmallLimit)
    \/ PassStore(1)
    \/ PassFinish(1)

SpecConverge == InitConverge /\ [][NextConverge]_vars

\* the scheduler keeps starting passes and every pass runs to its end
SpecConvergeLive == SpecConverge /\ WF_vars(NextConverge)

\* The table holds one message, unread, keyed by its UID or by its
\* Message-ID hash.
InitQueueSpec ==
    /\ InitBus
    /\ PoolAtRest
    /\ InitIdle
    /\ InitServer
    /\ InitPass
    /\ InitQueue
    /\ now = 0
    /\ lastStore = NoStore
    /\ \E id \in StoredIds : emails = {Row(id, "a", FALSE)}

NextQueue ==
    \/ \E kind \in HandlerKinds : \E email_id \in StoredIds : RequestStart(kind, email_id)
    \/ RequestEnqueue
    \/ \E operation \in OpKinds : \E uids \in BatchUids : batch_operations(operation, uids)
    \/ DrainStart
    \/ DrainIssue
    \/ DrainRecord
    \/ \E kind \in {"service", "celery"} : \E unread \in BOOLEAN : Reconcile(kind, unread)
    \/ cleanup_failed_tasks

SpecPool == InitPoolOnly /\ [][NextPool]_vars

SpecStore == InitSync /\ [][NextStore]_vars

SpecSync == InitSync /\ [][NextSync]_vars

SpecOverlap == InitOverlap /\ [][NextOverlap]_vars

\* SpecIdle: the manager as app.py runs it -- the pool with its cleanup
\* thread, the listener started and stopped by the application, and the
\* server.  A session loses its connection when the cleanup thread
\* disconnects it.
NextIdle ==
    \/ start_idle
    \/ stop_idle
    \/ stop_idle_join
    \/ \E l \in Loops : LoopStep(l)
    \/ ServerChange
    \/ SweepScan
    \/ SweepEvict
    \/ SweepPut

SpecIdle == InitSync /\ [][NextIdle]_vars

\* SpecListen: one listener thread, and the network can drop any session,
\* the one in IDLE included.
NextListen ==
    \/ start_idle
    \/ \E l \in Loops : LoopStep(l)
    \/ ServerChange
    \/ \E s \in Sessions : ServerDrop(s)

SpecListen == InitSync /\ [][NextListen]_vars

\* SpecServe: the application has been loaded and serves requests while the
\* listener thread runs.
NextServe ==
    \/ startup
    \/ shutdown_session
    \/ stop_idle_join
    \/ \E l \in Loops : LoopStep(l)
    \/ ServerChange

SpecServe == InitSync /\ [][NextServe]_vars

\* what the clients ask for: one of the event types, or everything
Wanted == {"email_received", "all"}

\* SpecBus: clients register, each under an id of its own (register_client
\* draws a uuid4), subscribe, unsubscribe and poll while events are
\* broadcast.
NextBus ==
    \/ nregistered < NClients /\ register_client(nregistered + 1)
    \/ \E c \in ClientIds : unregister_client(c)
    \/ \E c \in ClientIds : \E t \in Wanted : subscribe_client(c, {t})
    \/ \E c \in ClientIds : \E t \in Wanted : unsubscribe_client(c, {t})
    \/ \E t \in EventTypes : broadcast_event(t)
    \/ \E c \in ClientIds : PollBegin(c)
    \/ \E c \in ClientIds : get_client_events(c)

SpecBus == InitSync /\ [][NextBus]_vars

\* SpecReap: clients register and poll while time passes and the processor
\* thread runs; SpecReapLive: the processor thread is never starved.
NextReap ==
    \/ nregistered < NClients /\ register_client(nregistered + 1)
    \/ \E c \in ClientIds : PollBegin(c)
    \/ \E c \in ClientIds : get_client_events(c)
    \/ Elapse
    \/ _process_events

SpecReap == InitSync /\ [][NextReap]_vars

SpecReapLive == SpecReap /\ WF_vars(_process_events)

\* SpecSched: the periodic loop and the worker threads of the task manager;
\* SpecSchedLive: no thread that can take a step is starved.
NextSched ==
    \/ periodic_loop
    \/ \E w \in Workers : WorkerGet(w)
    \/ \E w \in Workers : WorkerDone(w)

SpecSched == InitSync /\ [][NextSched]_vars

SpecSchedLive ==
    /\ SpecSched
    /\ WF_vars(periodic_loop)
    /\ \A w \in Workers : WF_vars(WorkerGet(w)) /\ WF_vars(WorkerDone(w))

\* SpecIdleLive: every listener thread that can take a step eventually takes
\* one, and a join that can return eventually returns.
SpecIdleLive ==
    /\ SpecIdle
    /\ \A l \in Loops : WF_vars(LoopStep(l))
    /\ WF_vars(stop_idle_join)

SpecQueue == InitQueueSpec /\ [][NextQueue]_vars

\* SpecFaults: the mutation handlers with the requests they refuse and with
\* a database that can fail the commit of an operation.
NextFaults ==
    \/ \E kind \in HandlerKinds : \E email_id \in StoredIds : RequestStart(kind, email_id)
    \/ RequestEnqueue
    \/ RequestEnqueueFails
    \/ \E email_id \in StoredIds : RequestRejected(email_id)
    \/ \E operation \in OpKinds : \E uids \in BatchUids : batch_operations(operation, uids)
    \/ \E operation \in HandlerKinds \cup OpKinds : \E uids \in BatchUids \cup {<<>>} :
          batch_rejected(operation, uids)

SpecFaults == InitQueueSpec /\ [][NextFaults]_vars

\* SpecDrains: the table holds operations the handlers enqueued, and the
\* worker's drain (tasks.process_pending_operations, every minute by the beat
\* schedule) runs next to the in-process scheduler's
\* (process_pending_operations_task).
EnqueuedOps(e) == {NewOp(e, k) : k \in OpKinds}

\* the row after batch_operations requests have updated it, one for each of
\* the operations
RECURSIVE RowAfter(_, _)
RowAfter(r, ops) ==
    IF ops = <<>> THEN r ELSE RowAfter(BatchUpdate(r, Head(ops).operation_type), Tail(ops))

InitDrains ==
    /\ InitBus
    /\ PoolAtRest
    /\ InitIdle
    /\ InitServer
    /\ InitPass
    /\ now = 0
    /\ lastStore = NoStore
    /\ \E id \in StoredIds :
          /\ operations \in UNION {[1..n -> EnqueuedOps(id)] : n \in 1..MaxOps}
          /\ emails = {RowAfter(Row(id, "a", FALSE), operations)}
    /\ req = NoReq
    /\ lastReq = NoReturn
    /\ drainPc = "idle"
    /\ todo = <<>>
    /\ attempt = NoAttempt
    /\ effects = <<>>
    /\ staleSeen = {}
    /\ lastSeen = NoSeen
    /\ purged = {}
    /\ published = <<>>
    /\ taskPc = "idle"
    /\ taskTodo = <<>>
    /\ taskAttempt = NoAttempt
    /\ attempts = [i \in 1..MaxOps |-> 0]

NextDrains ==
    \/ DrainStart
    \/ DrainIssue
    \/ DrainRecord
    \/ TaskStart
    \/ TaskIssue
    \/ TaskRecord

SpecDrains == InitDrains /\ [][NextDrains]_vars

(***************************************************************************)
(* Properties of the session pool                                          *)
(***************************************************************************)
\* C1: under every interleaving of leases, releases and the background
\* sweep, no session is held by two callers at once, a held session is not
\* in the idle queue, and the idle queue holds no session twice (so a
\* session is handed out again only after its holder has put it back).
C1_LeaseMutualExclusion ==
    /\ \A t1, t2 \in Callers :
          (t1 # t2 /\ held[t1] # 0) => held[t1] # held[t2]
    /\ \A t \in Callers : held[t] # 0 => held[t] \notin Range(available)
    /\ \A i, j \in DOMAIN available : i # j => available[i] # available[j]

\* C1 witness: two callers hold sessions at the same time, one of them a
\* session that was released before and handed out again, while the sweep
\* is replacing a stale session.
C1_Witness ==
    \E t1, t2 \in Callers :
        /\ t1 # t2
        /\ held[t1] # 0 /\ held[t2] # 0
        /\ held[t1] = lastReleased
        /\ sweepPc = "put"

\* C8: IMAPConnection.get_connection never waits on the session's own
\* lock: a caller that is inside get_connection, about to run the liveness
\* probe, does not itself hold the lock the probe has to take.
C8_GetConnectionNeverSelfBlocks ==
    \A t \in Callers : pc[t] = "gc_locked" => lockOwner[held[t]] # t

\* C13: a lease that ends in an error because the idle queue stayed empty
\* for the wait bound and the temporary session failed to connect leaves the
\* pool's idle queue and its session list as they were.
C13_FailedLeaseLeavesPoolUnchanged ==
    [][(\E t \in Callers : LeaseFail(t)) => UNCHANGED <<available, connections>>]_vars

\* C14: a release never waits: whenever a releasing caller is about to put
\* its session back, the idle queue has room for it.
C14_ReleaseNeverBlocks ==
    \A t \in Callers : pc[t] = "putting" => QueueCanPut(available)

\* The sessions that are leased: a caller or a listener thread took them
\* from the pool and has not given them back.
Leased == ({held[t] : t \in Callers} \cup {loopHeld[l] : l \in Loops}) \ {0}

\* C25: the sweep evicts idle sessions only, and for good: the session it
\* disconnects in a step is not leased, and after the step it is neither in
\* the pool's session list nor in its idle queue.
C25_SweepEvictsOnlyIdleSessions ==
    [][SweepEvict =>
          /\ Min(sweepTodo) \notin Leased
          /\ Min(sweepTodo) \notin connections'
          /\ Min(sweepTodo) \notin Range(available')]_vars

\* C24: the connected sessions of the pool, those in its idle queue and
\* those leased to callers, are never more than max_connections.
C24_LiveSessionsWithinMaximum ==
    LET owned == (Range(available) \cup {held[t] : t \in Callers}) \ {0}
    IN  Cardinality({s \in owned : live[s]}) <= max_connections

(***************************************************************************)
(* Properties of the change listener                                       *)
(***************************************************************************)
\* C17: after any sequence of start_idle and stop_idle calls at most one
\* listener thread is alive and at most one session is leased to a listener.
C17_AtMostOneListener ==
    /\ Cardinality(Alive) <= 1
    /\ Cardinality({l \in Loops : loopHeld[l] # 0}) <= 1

\* C18: a listener thread that was in its IDLE wait when stop_idle was
\* called eventually returns, holding no session.
C18_StopEndsTheWait ==
    \A l \in Loops :
        (stoppedWaiting = l) ~> (loopPc[l] = "exited" /\ loopHeld[l] = 0)

\* C19: no listener is in its IDLE wait while a change that the server made
\* during a listener's backoff sleep, when no session was in IDLE, is still
\* unannounced.
C19_MissedChangeIsCaughtUp ==
    ~(missed /\ \E l \in Loops : loopPc[l] = "listening")

\* C23: a command goes to a session only from the thread that holds its
\* lease: the probe of the sweep (NOOP) and its disconnect (DONE, LOGOUT) do
\* not reach a connected session that is leased, and the listener's error
\* handler sends no DONE on a session it has put back.
C23_OnlyTheHolderIssuesCommands ==
    [][/\ SweepScan => \A c \in connections : live[c] => c \notin Leased
       /\ SweepEvict => (live[Min(sweepTodo)] => Min(sweepTodo) \notin Leased)
       /\ \A l \in Loops :
             (LoopPut(l) /\ loopPc[l] = "puttingX") => ~is_idle[loopHeld[l]]]_vars

(***************************************************************************)
(* Properties of the event bus                                             *)
(***************************************************************************)
\* C20: the queue of every subscriber is bounded: it never holds more than
\* QueueBound undelivered events.
C20_SubscriberQueueIsBounded ==
    \A c \in clients : Len(events[c]) <= QueueBound

\* C21: a poll returns a heartbeat only when the subscriber's queue is
\* empty, and an event otherwise; the events a subscriber's polls returned
\* came oldest first and none came twice; and every one of them is an event
\* whose type the subscriber was subscribed to (by name or through 'all')
\* when it was broadcast.
C21_PollDeliversOldestOnceIfSubscribed ==
    \A c \in ClientIds :
        /\ lastPoll[c].type = "heartbeat" => lastPoll[c].queued = 0
        /\ (lastPoll[c].type \notin {"", "heartbeat"}) =>
              /\ delivered[c] # <<>>
              /\ lastPoll[c].queued > 0
        /\ \A i, j \in DOMAIN delivered[c] : i < j => delivered[c][i] < delivered[c][j]
        /\ \A i \in DOMAIN delivered[c] : c \in audience[delivered[c][i]]

\* C21 witness: a subscriber has polled two events out of three that were
\* broadcast, the last poll returned an event while another was still
\* queued behind it, and the other client, subscribed to another type, got
\* a heartbeat.
C21_Witness ==
    \E c, d \in clients :
        /\ c # d
        /\ Len(delivered[c]) = 2
        /\ lastPoll[c].type = "email_received" /\ lastPoll[c].queued = 2
        /\ lastPoll[d].type = "heartbeat"
        /\ nevents = MaxEvents

(***************************************************************************)
(* Properties of the message store                                         *)
(***************************************************************************)
\* The rows that hold the message an email_data dict describes.
RecordsOf(d) == {r \in emails : r.message_id = DictGet(d.message_id, "")}

\* C2: when store_email_safely has been applied twice in a row to the same
\* fetched email_data, the second application left the table exactly as it
\* was and the table holds exactly one record for that message.
C2_SecondStoreIsNoOp ==
    lastStore.second =>
        /\ ~lastStore.changed
        /\ Cardinality(RecordsOf(lastStore.d)) = 1

(***************************************************************************)
(* Properties of the reconciliation passes                                 *)
(***************************************************************************)
\* The content fingerprint of a server message: the digest of its
\* Message-ID header.
Fingerprint(msg) == Md5(msg.message_id)

\* A finished pass of the given kind that reached the server, got every
\* message it asked for and whose limit covered the whole mailbox.
CleanPass(p, kind) ==
    /\ passPc[p] = "done"
    /\ passKind[p] = kind
    /\ passInfo[p].clean
    /\ passInfo[p].box # <<>>
    /\ Len(passInfo[p].box) <= passInfo[p].limit

\* C5: a pass that starts when the server's UIDVALIDITY differs from the one
\* seen by the pass before it re-fetches every server message, and when it
\* is over the store holds exactly one record for the fingerprint of each
\* message that was on the server.
C5_IdentityChangeRefetchesAll ==
    \A p \in Passes :
        (CleanPass(p, "celery") /\ passInfo[p].changed) =>
            \A i \in DOMAIN passInfo[p].box :
                passInfo[p].box[i].message_id # "" =>
                    Cardinality({r \in emails : r.id = Fingerprint(passInfo[p].box[i])}) = 1

\* C7: for a mailbox of n unseen, parseable messages, n <= limit, a pass of
\* email_sync_service.sync_emails that fetched them all returns count n
\* and skipped 0, and the store then holds at least those n records.
C7_PassStoresEveryMessage ==
    \A p \in Passes :
        (/\ CleanPass(p, "service")
         /\ \A i \in DOMAIN passInfo[p].box : passInfo[p].box[i].unread) =>
            /\ passRes[p].count = Len(passInfo[p].box)
            /\ passRes[p].skipped = 0
            /\ Cardinality(emails) >= Len(passInfo[p].box)

\* C16: when passes that overlapped in time have all finished, each having
\* fetched every message of the same mailbox, the store holds exactly one
\* record for the fingerprint of each server message.
C16_OverlappingPassesOneRecordEach ==
    (/\ overlapped
     /\ \A p \in Passes : passPc[p] = "done" /\ passInfo[p].clean /\ passInfo[p].box # <<>>) =>
        \A i \in DOMAIN mailbox :
            mailbox[i].message_id # "" =>
                Cardinality({r \in emails : r.id = Fingerprint(mailbox[i])}) = 1

\* The message number an 'id' of fetch_emails stands for (uid = eid.decode()).
IdNum(u) == CHOOSE n \in 1..MaxMsgs : ToString(n) = u

\* C31: the messages a pass has still to process are in strictly descending
\* order of their message numbers and the pass takes them from the front;
\* and the messages a pass selects when it gets every message it asks for
\* are the `limit` highest numbers of the mailbox (all of them when the
\* mailbox is smaller).
C31_NewestFirstWithinLimit ==
    /\ [](\A p \in Passes : \A i, j \in DOMAIN batch[p] :
              i < j => IdNum(batch[p][i].id) > IdNum(batch[p][j].id))
    /\ [][\A p \in Passes :
              /\ (passPc[p] = "storing" /\ batch'[p] # batch[p]) =>
                     batch'[p] = Tail(batch[p])
              /\ (passPc[p] # "storing" /\ passPc'[p] = "storing" /\ passInfo'[p].clean) =>
                     {IdNum(batch'[p][k].id) : k \in DOMAIN batch'[p]} =
                        {n \in 1..Len(mailbox) : n > Len(mailbox) - passInfo'[p].limit}]_vars

\* C31 witness: a pass with a limit smaller than the mailbox got every
\* message it asked for and is about to process the newest one.
C31_Witness ==
    /\ passPc[1] = "storing"
    /\ passInfo[1].clean
    /\ passInfo[1].limit < Len(passInfo[1].box)
    /\ batch[1] # <<>>
    /\ IdNum(Head(batch[1]).id) = Len(mailbox)

\* Every message of the mailbox that has a fingerprint has its record.
AllStored ==
    \A i \in DOMAIN mailbox :
        mailbox[i].message_id # "" =>
            \E r \in emails : r.id = Fingerprint(mailbox[i])

\* C30: with an unchanged server that holds more messages than the limit
\* of a pass, if passes that reach the server and get every message they
\* ask for keep coming, the store eventually holds a record for every
\* server message.
C30_RepeatedPassesConverge ==
    ([]<>(passPc[1] = "done" /\ passInfo[1].clean)) => <>AllStored

\* C15: a pass that met a connection-level error (no session could be
\* leased, the session had no connection, or the listing failed) returns an
\* error result, so that its caller can tell it from a pass that found an
\* empty mailbox.
C15_ConnectionErrorIsReported ==
    \A p \in Passes :
        (passPc[p] = "done" /\ ~passInfo[p].connected) => passRes[p].status = "error"

(***************************************************************************)
(* Properties of the local mutations and of the drain                      *)
(***************************************************************************)
\* C3: the commands the server applied for one message were applied in the
\* order in which their operations were enqueued: a later operation never
\* took effect before an earlier one on the same message.
C3_EffectsInEnqueueOrder ==
    \A i, j \in DOMAIN effects :
        (i < j /\ operations[effects[i]].email_uid = operations[effects[j]].email_uid)
            => effects[i] < effects[j]

\* C4: an operation whose retry count has reached its ceiling is in state
\* failed.
C4_CeilingMeansFailed ==
    \A i \in DOMAIN operations :
        operations[i].retry_count >= max_retries => operations[i].status = "failed"

\* No unread mutation on the message of operation i came after it.
NoLaterUnread(i) ==
    /\ \A j \in DOMAIN operations :
          (j > i /\ operations[j].email_uid = operations[i].email_uid)
              => operations[j].operation_type # "unread"
    /\ ~(req.pc = "flagged" /\ req.kind = "unread"
                            /\ req.email_id = operations[i].email_uid)

\* C6: a mark-read was applied locally and enqueued, a pass saw the message
\* unread on the server before the drain got to it, and the drain has now
\* issued its command over a working session: the remote call has
\* succeeded and the record's read flag is still true.
C6_LocalReadSurvivesStaleRemote ==
    \A i \in DOMAIN operations :
        (/\ operations[i].operation_type = "read"
         /\ i \in staleSeen
         /\ drainPc = "issued" /\ attempt.op = i /\ attempt.up
         /\ NoLaterUnread(i)) =>
            /\ attempt.success
            /\ EmailGet(emails, operations[i].email_uid).is_read

\* C9: every request that returned after an accepted mutation enqueued one
\* operation for each record whose status it updated.
C9_EveryMutationEnqueued ==
    lastReq.enq = lastReq.items

\* The newest operation of the given kinds on message e, 0 when none.
LastOf(e, kinds) ==
    LET S == {i \in DOMAIN operations :
                 /\ operations[i].email_uid = e
                 /\ operations[i].operation_type \in kinds}
    IN  IF S = {} THEN 0 ELSE CHOOSE i \in S : \A j \in S : j <= i

\* A handler of one of the kinds has committed its status change on e and
\* not yet its operation.
InFlight(e, kinds) ==
    req.pc = "flagged" /\ req.email_id = e /\ req.kind \in kinds

\* C10: no operation is in the table before the status change it stands
\* for: unless a handler is between its two commits (flag already set), the
\* record's read and flagged flags are those of the newest operation of
\* that kind, a record with a delete operation is deleted, and the
\* operations of a returned request are in the table.
C10_StatusNeverBehindOperation ==
    /\ \A r \in emails :
          /\ (LastOf(r.id, {"read", "unread"}) # 0 /\ ~InFlight(r.id, {"read", "unread"}))
                => r.is_read =
                     (operations[LastOf(r.id, {"read", "unread"})].operation_type = "read")
          /\ (LastOf(r.id, {"flag", "unflag"}) # 0 /\ ~InFlight(r.id, {"flag"}))
                => r.is_flagged =
                     (operations[LastOf(r.id, {"flag", "unflag"})].operation_type = "flag")
          /\ LastOf(r.id, {"delete"}) # 0 => r.is_deleted
    /\ lastReq.enq <= Len(operations)

\* The terminal states of an operation.
Terminal == {"success", "failed"}

\* C11: an operation that is in a terminal state keeps that state and its
\* row stays in the table in every step of every worker and maintenance
\* task.
C11_TerminalIsRetained ==
    [][\A i \in DOMAIN operations :
          (operations[i].status \in Terminal /\ i \notin purged) =>
              /\ operations'[i].status = operations[i].status
              /\ i \notin purged']_vars

\* C12: the step of the drain that commits a terminal state of an operation
\* also publishes an event about that operation's message.
C12_TerminalTransitionPublishes ==
    [][\A i \in DOMAIN operations :
          (operations[i].status = "pending" /\ operations'[i].status \in Terminal) =>
              /\ Len(published') > Len(published)
              /\ \E k \in (Len(published) + 1)..Len(published') :
                    operations[i].email_uid \in Range(published'[k].email_ids)]_vars

\* C26: while the worker's drain and the scheduler's run on the same
\* pending operations, the retry count of an operation never goes down and
\* never exceeds max_retries, and no more than max_retries commands are
\* issued for it.
C26_RetriesBoundedUnderConcurrentDrains ==
    /\ [](\A i \in DOMAIN operations :
              /\ operations[i].retry_count <= max_retries
              /\ attempts[i] <= max_retries)
    /\ [][\A i \in DOMAIN operations :
              operations'[i].retry_count >= operations[i].retry_count]_vars

\* C27: while a drain has a command in progress for an operation, the
\* operation's status is 'processing' (the in-flight state of the status
\* column), and the two drains never have a command in progress for the
\* same operation.
C27_IssuedOperationIsInFlight ==
    /\ drainPc = "issued" => operations[attempt.op].status = "processing"
    /\ taskPc = "issued" => operations[taskAttempt.op].status = "processing"
    /\ ~(drainPc = "issued" /\ taskPc = "issued" /\ attempt.op = taskAttempt.op)

\* C28: no kind of operation the handlers enqueue is turned down by the
\* worker: a command issued over a working session for a message the
\* server knows succeeds, whatever the kind, so that the operation can
\* reach 'success'.
C28_EveryEnqueuedKindIsExecuted ==
    /\ (drainPc = "issued" /\ attempt.up
            /\ ServerAccepts(operations[attempt.op].email_uid)) => attempt.success
    /\ (taskPc = "issued" /\ taskAttempt.up
            /\ ServerAccepts(operations[taskAttempt.op].email_uid)) => taskAttempt.success

\* The message set the command of an operation names: execute_operation
\* hands the operation's email_uid to UID STORE.
CommandTarget(operation) == operation.email_uid

\* C29: the command issued for an operation names a server-side identity of
\* the mailbox (a UID), and not the fingerprint of the record the operation
\* is about.
C29_CommandAddressesServerIdentity ==
    \A a \in {attempt, taskAttempt} :
        (a.op # 0 /\ a.up /\ operations[a.op].operation_type \in RemoteKinds) =>
            /\ CommandTarget(operations[a.op]) \in Uids
            /\ CommandTarget(operations[a.op]) #
                  Fingerprint(EmailGet(emails, operations[a.op].email_uid))

\* C22: a message that a delete was requested for keeps its record, the one
\* record of that message, with is_deleted set, and the record is on no
\* page get_emails_from_db returns -- whatever passes met the message on the
\* server since.
C22_DeleteLeavesTombstone ==
    /\ \A i \in DOMAIN operations :
          operations[i].operation_type = "delete" =>
              \E r \in emails :
                  /\ r.id = operations[i].email_uid
                  /\ r.is_deleted
                  /\ r.id \notin get_emails_from_db(emails)
    /\ InFlight(req.email_id, {"delete"}) =>
          \E r \in emails : r.id = req.email_id /\ r.is_deleted
    /\ \A r1, r2 \in emails :
          (r1.id = r2.id \/ r1.message_id = r2.message_id) => r1 = r2

\* C22 witness: a delete of the message and then a mark-read have returned,
\* the drain has made an attempt at the delete, and a pass has met the
\* message, unread, on the server after the mark-read was enqueued; the
\* record is there, deleted.
C22_Witness ==
    /\ Len(operations) = 2
    /\ operations[1].operation_type = "delete"
    /\ operations[1].retry_count > 0 \/ operations[1].status = "success"
    /\ operations[2].operation_type = "read"
    /\ operations[2].email_uid = operations[1].email_uid
    /\ 2 \in staleSeen
    /\ \E r \in emails : r.id = operations[1].email_uid /\ r.is_deleted

\* C10 witness: a mark-read and then a mark-unread of the same message have
\* both returned; their operations are pending and the record is unread.
C10_Witness ==
    /\ req.pc = "idle"
    /\ lastReq = [items |-> 1, enq |-> 1]
    /\ \E r \in emails :
          /\ ~r.is_read
          /\ Len(operations) = 2
          /\ operations[1] = NewOp(r.id, "read")
          /\ operations[2] = NewOp(r.id, "unread")

\* A local mutation of the read flag of record e is pending: an operation of
\* that kind waits for the drain, or a handler is between its two commits.
ReadMutationPending(e) ==
    \/ \E i \in Pending : /\ operations[i].email_uid = e
                          /\ operations[i].operation_type \in {"read", "unread"}
    \/ InFlight(e, {"read", "unread"})

\* C32: a pass meets a message that already has a record (the id of the
\* fetched dict is a primary key) and no local mutation of the read flag is
\* pending: after the pass the record's read flag is the server's.
C32_RemoteFlagIsMerged ==
    [][\A kind \in {"service", "celery"} : \A unread \in BOOLEAN :
          \A r \in emails :
             (/\ Reconcile(kind, unread)
              /\ r.id = _parse_email([message_id |-> "a", unread |-> unread], "1").id
              /\ ~ReadMutationPending(r.id))
                 => \E q \in emails' : q.id = r.id /\ q.is_read = ~unread]_vars

\* The message numbers a pass with the given limit selects in the mailbox.
Selected(box, limit) == Range(RecentIds(Len(box), limit))

\* C33: a service pass that reached the server runs to its end whatever
\* happened to single messages, and every selected message is accounted
\* for: those not stored are the skipped ones, so the stored and the skipped
\* count add up to the number of selected messages.
C33_FailedMessagesAreCountedSkipped ==
    \A p \in Passes :
        (passPc[p] = "done" /\ passKind[p] = "service" /\ passInfo[p].connected) =>
            /\ passRes[p].status = "success"
            /\ passRes[p].count + passRes[p].skipped =
                   Cardinality(Selected(passInfo[p].box, passInfo[p].limit))

\* C34: the listener publishes its new-activity event only after a
\* reconciliation pass, started on the push signal, has returned with
\* success.
C34_SignalTriggersPassBeforeEvent ==
    [][\A l \in Loops :
          (LoopPoll(l) /\ imapEvents' # imapEvents) =>
              \E p \in Passes : passPc[p] = "done" /\ passRes[p].status = "success"]_vars

\* C35: a session whose push wait ended in a protocol error is discarded: it
\* is not put back in the idle queue, and no session in the idle queue is
\* marked as being in IDLE.
C35_FailedListenerSessionIsDiscarded ==
    /\ [](\A s \in Range(available) : ~is_idle[s])
    /\ [][\A l \in Loops :
             (loopPc[l] \in {"releasingX", "puttingX"} /\ is_idle[loopHeld[l]]) =>
                 loopHeld[l] \notin Range(available')]_vars

\* The client has not pinged for longer than the timeout.
Inactive(c) == c \in clients /\ last_ping[c] < now - client_timeout

\* C36: a client that has been inactive for longer than the timeout is
\* eventually removed (or pings again); a client is removed only when it is
\* inactive; and the processor thread gets to its event queue again and
\* again.
C36_InactiveClientsAreReaped ==
    /\ \A c \in ClientIds : Inactive(c) ~> ~Inactive(c)
    /\ [][\A c \in clients : c \notin clients' => Inactive(c)]_vars
    /\ []<>(reaperPc = "get")

\* A worker is in a call of the task that never returns.
Blocked(task) == \E w \in Workers : workers[w].task = task /\ ~workers[w].returns

\* C37: as long as no mutation sweep blocks, every mutation sweep the
\* periodic loop queued is begun, whatever the reconciliation passes do;
\* and as long as no reconciliation pass blocks, every pass the loop asked
\* for is begun, whatever the mutation sweeps do.
C37_SweepsProgressIndependently ==
    /\ [](~Blocked("process_pending_operations_task")) =>
          <>(started["process_pending_operations_task"] = MaxRounds)
    /\ [](~Blocked("sync_emails_task")) =>
          <>(started["sync_emails_task"] = MaxRounds)

\* C38: the end of a served request leaves the listener as it was: the
\* teardown of the request's application context does not change
\* idle_running.
C38_RequestLeavesListenerRunning ==
    [][shutdown_session => idle_running' = idle_running]_vars

FlagByOperations(e, kinds, setting) ==
    IF LastOf(e, kinds) = 0
    THEN FALSE
    ELSE operations[LastOf(e, kinds)].operation_type = setting

\* C40: whenever no request is being served, the read, flagged and deleted
\* flags of every record are the ones its operations stand for: a request
\* that returned an error has left no flag changed without an operation.
C40_ErrorLeavesNoFlagWithoutOperation ==
    req.pc = "idle" =>
        \A r \in emails :
            /\ r.is_read = FlagByOperations(r.id, {"read", "unread"}, "read")
            /\ r.is_flagged = FlagByOperations(r.id, {"flag", "unflag"}, "flag")
            /\ r.is_deleted = FlagByOperations(r.id, {"delete"}, "delete")

====
